---- MODULE Spec2Model ----
(***************************************************************************)
(* Training-data generation and word-assignment validation of the          *)
(* audioscripts repository:                                                *)
(*   - TrainingDataExporter (lib/transcription/training-data-exporter.ts)  *)
(*   - TranscriptionService.validateWordAssignments                        *)
(*     (lib/transcription/test-utils.ts)                                   *)
(* A JavaScript string is a sequence of one-character strings, so that     *)
(* trim, split, includes and replace are computed character by character.  *)
(***************************************************************************)
EXTENDS Integers, Sequences, FiniteSets, TLC

VARIABLES
  pc,                   \* "ready" before the call under study, "done" after it
  content,              \* extractTopicFromContent: its argument
  topic,                \* extractTopicFromContent: its return value
  transcription,        \* validateWordAssignments: the transcript
  marketingSegments,    \* validateWordAssignments: the four segments
  wordAssignments,      \* validateWordAssignments: the array passed by reference
  validation,           \* validateWordAssignments: its return value
  transcriptionResults, \* generateTrainingDataset: first argument
  syntheticScripts,     \* generateTrainingDataset: third argument
  options,              \* generateTrainingDataset: fourth argument
  dataset,              \* generateTrainingDataset: its return value
  jsonl,                \* exportToJSONL: its return value
  previousReport,       \* validateDataset: the report of the call before
  report,               \* validateDataset: its return value
  responseText,         \* parseMarketingResponse: what its argument holds
  parsed,               \* parseMarketingResponse: its return value
  videos,               \* processTranscriptionRequest: request.videos
  requestOptions,       \* processTranscriptionRequest: request.options
  outcomes,             \* what the download and the model call do per video
  jobResult,            \* processTranscriptionRequest: its return value
  pipelineRequest,      \* automated-pipeline POST: the body of the request
  environment,          \* automated-pipeline POST: what the other routes answer
  locals,               \* automated-pipeline POST: its local variables
  steps,                \* automated-pipeline POST: tracker.steps
  pipelineResponse,     \* automated-pipeline POST: the response it returns
  now,                  \* GeminiClient.transcribeVideos: the clock, in ms
  client,               \* GeminiClient.transcribeVideos: its local variables
  requestTimes          \* when each call of transcribeVideo started and ended

vars == <<pc, content, topic, transcription, marketingSegments, wordAssignments,
          validation, transcriptionResults, syntheticScripts, options, dataset,
          jsonl, previousReport, report, responseText, parsed, videos,
          requestOptions, outcomes, jobResult, pipelineRequest, environment,
          locals, steps, pipelineResponse, now, client, requestTimes>>

topicVars     == <<content, topic>>
validatorVars == <<transcription, marketingSegments, wordAssignments, validation>>
datasetVars   == <<transcriptionResults, syntheticScripts, options, dataset>>
exportVars    == <<jsonl, previousReport, report>>
parserVars    == <<responseText, parsed>>
batchVars     == <<videos, requestOptions, outcomes, jobResult>>
pipelineVars  == <<pipelineRequest, environment, locals, steps, pipelineResponse>>
clientVars    == <<now, client, requestTimes>>
serviceVars   == <<parserVars, batchVars, pipelineVars, clientVars>>

\* The value of a variable that the specification at hand does not use.
Unused == <<>>

ExportUnused == jsonl = Unused /\ previousReport = Unused /\ report = Unused

ParserUnused == responseText = Unused /\ parsed = Unused

BatchUnused ==
  /\ videos = Unused /\ requestOptions = Unused
  /\ outcomes = Unused /\ jobResult = Unused

PipelineUnused ==
  /\ pipelineRequest = Unused /\ environment = Unused /\ locals = Unused
  /\ steps = Unused /\ pipelineResponse = Unused

ClientUnused == now = Unused /\ client = Unused /\ requestTimes = Unused

ServiceUnused == ParserUnused /\ BatchUnused /\ PipelineUnused /\ ClientUnused

(***************************************************************************)
(* Strings                                                                 *)
(***************************************************************************)

\* The characters of the model's alphabet that the regular expression \s matches.
WhiteSpace == {" ", "\t", "\n"}

UpperCase == <<"A", "B", "C", "D", "E", "F", "G", "H", "I", "J", "K", "L", "M", "N", "O", "P", "Q", "R", "S", "T", "U", "V", "W", "X", "Y", "Z">>
LowerCase == <<"a", "b", "c", "d", "e", "f", "g", "h", "i", "j", "k", "l", "m", "n", "o", "p", "q", "r", "s", "t", "u", "v", "w", "x", "y", "z">>

\* String.prototype.toLowerCase
toLowerCase(s) ==
  [i \in 1..Len(s) |->
     IF \E k \in 1..Len(UpperCase) : UpperCase[k] = s[i]
     THEN LowerCase[CHOOSE k \in 1..Len(UpperCase) : UpperCase[k] = s[i]]
     ELSE s[i]]

RECURSIVE trimStart(_)
trimStart(s) ==
  IF s # <<>> /\ Head(s) \in WhiteSpace THEN trimStart(Tail(s)) ELSE s

RECURSIVE trimEnd(_)
trimEnd(s) ==
  IF s # <<>> /\ s[Len(s)] \in WhiteSpace
  THEN trimEnd(SubSeq(s, 1, Len(s) - 1))
  ELSE s

\* String.prototype.trim
trim(s) == trimEnd(trimStart(s))

\* text.replace(/\s+/g, ' ')
RECURSIVE collapseWhitespace(_)
collapseWhitespace(s) ==
  IF s = <<>> THEN <<>>
  ELSE IF Head(s) \in WhiteSpace
       THEN <<" ">> \o collapseWhitespace(trimStart(s))
       ELSE <<Head(s)>> \o collapseWhitespace(Tail(s))

\* const normalizeText = (text) => text.replace(/\s+/g, ' ').trim()
normalizeText(text) == trim(collapseWhitespace(text))

\* s.split(/\s+/): a leading or trailing run of whitespace yields an empty
\* first or last token, and the empty string yields one empty token.
RECURSIVE splitFrom(_, _)
splitFrom(s, token) ==
  IF s = <<>> THEN <<token>>
  ELSE IF Head(s) \in WhiteSpace
       THEN <<token>> \o splitFrom(trimStart(s), <<>>)
       ELSE splitFrom(Tail(s), Append(token, Head(s)))

splitWhitespace(s) == splitFrom(s, <<>>)

\* String.prototype.includes
includes(word, keyword) ==
  \E i \in 0..(Len(word) - Len(keyword)) :
     SubSeq(word, i + 1, i + Len(keyword)) = keyword

\* Array.prototype.join over an array of strings
RECURSIVE join(_, _)
join(parts, sep) ==
  IF parts = <<>> THEN <<>>
  ELSE IF Len(parts) = 1 THEN parts[1]
       ELSE parts[1] \o sep \o join(Tail(parts), sep)

\* String.prototype.substring(0, n)
substring(s, n) == SubSeq(s, 1, IF Len(s) < n THEN Len(s) ELSE n)

Space == <<" ">>

(***************************************************************************)
(* TrainingDataExporter.extractTopicFromContent                            *)
(***************************************************************************)

\* Object.entries iterates the string keys of the literal in the order written.
topicKeywords ==
  <<
     \* 'productivity': ['productive', 'efficiency', 'time', 'work', 'focus']
     [topic    |-> <<"p", "r", "o", "d", "u", "c", "t", "i", "v", "i", "t", "y">>,
      keywords |-> <<
         <<"p", "r", "o", "d", "u", "c", "t", "i", "v", "e">>,
         <<"e", "f", "f", "i", "c", "i", "e", "n", "c", "y">>,
         <<"t", "i", "m", "e">>,
         <<"w", "o", "r", "k">>,
         <<"f", "o", "c", "u", "s">> >>],
     \* 'fitness': ['workout', 'exercise', 'gym', 'health', 'fitness']
     [topic    |-> <<"f", "i", "t", "n", "e", "s", "s">>,
      keywords |-> <<
         <<"w", "o", "r", "k", "o", "u", "t">>,
         <<"e", "x", "e", "r", "c", "i", "s", "e">>,
         <<"g", "y", "m">>,
         <<"h", "e", "a", "l", "t", "h">>,
         <<"f", "i", "t", "n", "e", "s", "s">> >>],
     \* 'business': ['business', 'entrepreneur', 'money', 'success', 'growth']
     [topic    |-> <<"b", "u", "s", "i", "n", "e", "s", "s">>,
      keywords |-> <<
         <<"b", "u", "s", "i", "n", "e", "s", "s">>,
         <<"e", "n", "t", "r", "e", "p", "r", "e", "n", "e", "u", "r">>,
         <<"m", "o", "n", "e", "y">>,
         <<"s", "u", "c", "c", "e", "s", "s">>,
         <<"g", "r", "o", "w", "t", "h">> >>],
     \* 'social media': ['content', 'followers', 'engagement', 'viral', 'social']
     [topic    |-> <<"s", "o", "c", "i", "a", "l", " ", "m", "e", "d", "i", "a">>,
      keywords |-> <<
         <<"c", "o", "n", "t", "e", "n", "t">>,
         <<"f", "o", "l", "l", "o", "w", "e", "r", "s">>,
         <<"e", "n", "g", "a", "g", "e", "m", "e", "n", "t">>,
         <<"v", "i", "r", "a", "l">>,
         <<"s", "o", "c", "i", "a", "l">> >>],
     \* 'personal development': ['mindset', 'habits', 'goals', 'motivation', 'self']
     [topic    |-> <<"p", "e", "r", "s", "o", "n", "a", "l", " ", "d", "e", "v", "e", "l", "o", "p", "m", "e", "n", "t">>,
      keywords |-> <<
         <<"m", "i", "n", "d", "s", "e", "t">>,
         <<"h", "a", "b", "i", "t", "s">>,
         <<"g", "o", "a", "l", "s">>,
         <<"m", "o", "t", "i", "v", "a", "t", "i", "o", "n">>,
         <<"s", "e", "l", "f">> >>],
     \* 'technology': ['tech', 'app', 'digital', 'online', 'software']
     [topic    |-> <<"t", "e", "c", "h", "n", "o", "l", "o", "g", "y">>,
      keywords |-> <<
         <<"t", "e", "c", "h">>,
         <<"a", "p", "p">>,
         <<"d", "i", "g", "i", "t", "a", "l">>,
         <<"o", "n", "l", "i", "n", "e">>,
         <<"s", "o", "f", "t", "w", "a", "r", "e">> >>],
     \* 'relationships': ['relationship', 'dating', 'love', 'communication']
     [topic    |-> <<"r", "e", "l", "a", "t", "i", "o", "n", "s", "h", "i", "p", "s">>,
      keywords |-> <<
         <<"r", "e", "l", "a", "t", "i", "o", "n", "s", "h", "i", "p">>,
         <<"d", "a", "t", "i", "n", "g">>,
         <<"l", "o", "v", "e">>,
         <<"c", "o", "m", "m", "u", "n", "i", "c", "a", "t", "i", "o", "n">> >>],
     \* 'creativity': ['creative', 'art', 'design', 'inspiration', 'ideas']
     [topic    |-> <<"c", "r", "e", "a", "t", "i", "v", "i", "t", "y">>,
      keywords |-> <<
         <<"c", "r", "e", "a", "t", "i", "v", "e">>,
         <<"a", "r", "t">>,
         <<"d", "e", "s", "i", "g", "n">>,
         <<"i", "n", "s", "p", "i", "r", "a", "t", "i", "o", "n">>,
         <<"i", "d", "e", "a", "s">> >>]
  >>

\* 'general advice'
GeneralAdvice == <<"g", "e", "n", "e", "r", "a", "l", " ", "a", "d", "v", "i", "c", "e">>

\* words.filter(word => word.includes(keyword)).length
matchCount(words, keyword) ==
  Cardinality({i \in 1..Len(words) : includes(words[i], keyword)})

\* keywords.reduce((acc, keyword) => acc + <matchCount>, 0)
RECURSIVE topicScore(_, _)
topicScore(words, keywords) ==
  IF keywords = <<>> THEN 0
  ELSE matchCount(words, Head(keywords)) + topicScore(words, Tail(keywords))

\* Mutant of bestTopicFrom: a later topic with an equal score replaces the
\* running best.
RECURSIVE bestTopicFromLast(_, _, _, _)
bestTopicFromLast(words, i, bestTopic, bestScore) ==
  IF i > Len(topicKeywords) THEN bestTopic
  ELSE LET score == topicScore(words, topicKeywords[i].keywords)
       IN  IF score >= bestScore
           THEN bestTopicFromLast(words, i + 1, topicKeywords[i].topic, score)
           ELSE bestTopicFromLast(words, i + 1, bestTopic, bestScore)

\* The for..of loop over the entries, from entry i on, with the running best.
RECURSIVE bestTopicFrom(_, _, _, _)
bestTopicFrom(words, i, bestTopic, bestScore) ==
  IF i > Len(topicKeywords) THEN bestTopic
  ELSE LET score == topicScore(words, topicKeywords[i].keywords)
       IN  IF score > bestScore
           THEN bestTopicFrom(words, i + 1, topicKeywords[i].topic, score)
           ELSE bestTopicFrom(words, i + 1, bestTopic, bestScore)

extractTopicFromContent(text) ==
  bestTopicFrom(splitWhitespace(toLowerCase(text)), 1, GeneralAdvice, 0)

(***************************************************************************)
(* Specification SpecTopic: one call of extractTopicFromContent            *)
(***************************************************************************)

\* "Here's how to build a workout routine for beginners"
WorkoutSentence == <<"H", "e", "r", "e", "'", "s", " ", "h", "o", "w", " ", "t", "o", " ", "b", "u", "i", "l", "d", " ", "a", " ", "w", "o", "r", "k", "o", "u", "t", " ", "r", "o", "u", "t", "i", "n", "e", " ", "f", "o", "r", " ", "b", "e", "g", "i", "n", "n", "e", "r", "s">>

\* "asdf qwer zxcv"
GibberishSentence == <<"a", "s", "d", "f", " ", "q", "w", "e", "r", " ", "z", "x", "c", "v">>

\* Tokens the contents are built from: "workout", "gym", "worktime", "money",
\* "asdf", "GYM".
Vocabulary ==
  { <<"w", "o", "r", "k", "o", "u", "t">>,
    <<"g", "y", "m">>,
    <<"w", "o", "r", "k", "t", "i", "m", "e">>,
    <<"m", "o", "n", "e", "y">>,
    <<"a", "s", "d", "f">>,
    <<"G", "Y", "M">> }

MaxTokens == 3

Contents ==
  { join(ts, Space) : ts \in UNION {[1..n -> Vocabulary] : n \in 0..MaxTokens} }
    \cup {WorkoutSentence, GibberishSentence}

NoTopic == <<>>

InitTopic ==
  /\ pc = "ready"
  /\ content \in Contents
  /\ topic = NoTopic
  /\ transcription = Unused /\ marketingSegments = Unused
  /\ wordAssignments = Unused /\ validation = Unused
  /\ transcriptionResults = Unused /\ syntheticScripts = Unused
  /\ options = Unused /\ dataset = Unused
  /\ ExportUnused
  /\ ServiceUnused

ExtractTopic ==
  /\ pc = "ready"
  /\ topic' = extractTopicFromContent(content)
  /\ pc' = "done"
  /\ UNCHANGED <<serviceVars, content, validatorVars, datasetVars, exportVars>>

NextTopic == ExtractTopic

SpecTopic == InitTopic /\ [][NextTopic]_vars

\* 'fitness' and 'productivity', as spelled in the keyword table
Fitness      == topicKeywords[2].topic
Productivity == topicKeywords[1].topic

\* C8: extractTopicFromContent("Here's how to build a workout routine for
\* beginners") returns "fitness", and extractTopicFromContent("asdf qwer zxcv")
\* returns "general advice", on every call.
C8_TopicExamples ==
  pc = "done" =>
    /\ content = WorkoutSentence   => topic = Fitness
    /\ content = GibberishSentence => topic = GeneralAdvice

(***************************************************************************)
(* TranscriptionService.validateWordAssignments                            *)
(***************************************************************************)

\* The category type of WordAssignment (types.ts).
Categories == {"Hook", "Bridge", "Golden Nugget", "WTA"}

\* Insertion of a behind every element whose position is not larger: the
\* comparator (a, b) => a.position - b.position under the stable sort of
\* Array.prototype.sort.
RECURSIVE insertByPosition(_, _)
insertByPosition(sorted, a) ==
  IF sorted = <<>> THEN <<a>>
  ELSE IF Head(sorted).position <= a.position
       THEN <<Head(sorted)>> \o insertByPosition(Tail(sorted), a)
       ELSE <<a>> \o sorted

RECURSIVE sortFrom(_, _)
sortFrom(sorted, rest) ==
  IF rest = <<>> THEN sorted
  ELSE sortFrom(insertByPosition(sorted, Head(rest)), Tail(rest))

\* wordAssignments.sort((a, b) => a.position - b.position): the array as the
\* call leaves it. Array.prototype.sort sorts in place and returns the array.
sortByPosition(assignments) == sortFrom(<<>>, assignments)

\* sortedAssignments.map(w => w.word).join(' ')
reconstructTranscript(sortedAssignments) ==
  join([i \in 1..Len(sortedAssignments) |-> sortedAssignments[i].word], Space)

\* Mutant of concatenateSegments: the segments are joined without a separator.
concatenateSegmentsUnspaced(segments) ==
  join(<<segments.Hook, segments.Bridge, segments.GoldenNugget, segments.WTA>>, <<>>)

\* [Hook, Bridge, "Golden Nugget", WTA].join(' ')
concatenateSegments(segments) ==
  join(<<segments.Hook, segments.Bridge, segments.GoldenNugget, segments.WTA>>, Space)

\* wordAssignments.map(w => w.position)
positionsOf(assignments) == [i \in 1..Len(assignments) |-> assignments[i].position]

\* Mutant of includesPosition: the sorted array is taken to hold position pos
\* at index pos - 1.
includesPositionAtIndex(positions, pos) ==
  pos <= Len(positions) /\ positions[pos] = pos

\* positions.includes(pos)
includesPosition(positions, pos) == \E i \in 1..Len(positions) : positions[i] = pos

\* new Set(positions).size
uniquePositionCount(positions) ==
  Cardinality({positions[i] : i \in 1..Len(positions)})

\* Mutant of missingPositionsOf: the expected positions are built as i, not
\* i + 1.
missingPositionsFromZero(assignments) ==
  LET positions == positionsOf(assignments)
      expected  == [i \in 1..Len(assignments) |-> i - 1]
  IN  SelectSeq(expected, LAMBDA pos : ~includesPosition(positions, pos))

\* Mutant of missingPositionsOf: the last expected position is left out.
missingPositionsExceptLast(assignments) ==
  LET positions == positionsOf(assignments)
      expected  == [i \in 1..(Len(assignments) - 1) |-> i]
  IN  SelectSeq(expected, LAMBDA pos : ~includesPosition(positions, pos))

\* expectedPositions.filter(pos => !positions.includes(pos)), where
\* expectedPositions is 1..wordAssignments.length in ascending order.
missingPositionsOf(assignments) ==
  LET positions == positionsOf(assignments)
      expected  == [i \in 1..Len(assignments) |-> i]
  IN  SelectSeq(expected, LAMBDA pos : ~includesPosition(positions, pos))

\* categoryStats: the per-category counts that are logged, never returned.
categoryStats(assignments) ==
  [c \in Categories |->
     Cardinality({i \in 1..Len(assignments) : assignments[i].category = c})]

\* The entries of errors. The messages are kept by their kind and by the
\* values interpolated into them.
NoAssignmentsError == [kind |-> "No word assignments provided"]

TranscriptMismatchError(originalNormalized, reconstructedNormalized) ==
  [kind          |-> "Word assignments don't match original transcript",
   original      |-> substring(originalNormalized, 100),
   reconstructed |-> substring(reconstructedNormalized, 100)]

SegmentsMismatchError ==
  [kind |-> "Marketing segments concatenation doesn't match original transcript"]

DuplicatePositionsError == [kind |-> "Duplicate word positions found"]

\* `Missing word positions: ${missingPositions.join(', ')}`
MissingPositionsError(missingPositions) ==
  [kind |-> "Missing word positions", positions |-> missingPositions]

\* Mutant of validationErrors: a check runs only while no error was pushed.
validationErrorsUntilFirst(text, segments, assignments) ==
  LET sortedAssignments       == sortByPosition(assignments)
      originalNormalized      == normalizeText(text)
      reconstructedNormalized == normalizeText(reconstructTranscript(sortedAssignments))
      segmentsNormalized      == normalizeText(concatenateSegments(segments))
      positions               == positionsOf(sortedAssignments)
      missingPositions        == missingPositionsOf(sortedAssignments)
  IN  IF originalNormalized # reconstructedNormalized
      THEN <<TranscriptMismatchError(originalNormalized, reconstructedNormalized)>>
      ELSE IF originalNormalized # segmentsNormalized
      THEN <<SegmentsMismatchError>>
      ELSE IF Len(positions) # uniquePositionCount(positions)
      THEN <<DuplicatePositionsError>>
      ELSE IF Len(missingPositions) > 0
      THEN <<MissingPositionsError(missingPositions)>>
      ELSE <<>>

\* The errors pushed after the early return, in the order of the checks.
validationErrors(text, segments, assignments) ==
  LET sortedAssignments       == sortByPosition(assignments)
      originalNormalized      == normalizeText(text)
      reconstructedNormalized == normalizeText(reconstructTranscript(sortedAssignments))
      segmentsNormalized      == normalizeText(concatenateSegments(segments))
      positions               == positionsOf(sortedAssignments)
      missingPositions        == missingPositionsOf(sortedAssignments)
  IN  (IF originalNormalized # reconstructedNormalized
       THEN <<TranscriptMismatchError(originalNormalized, reconstructedNormalized)>>
       ELSE <<>>)
      \o (IF originalNormalized # segmentsNormalized
          THEN <<SegmentsMismatchError>> ELSE <<>>)
      \o (IF Len(positions) # uniquePositionCount(positions)
          THEN <<DuplicatePositionsError>> ELSE <<>>)
      \o (IF Len(missingPositions) > 0
          THEN <<MissingPositionsError(missingPositions)>> ELSE <<>>)

\* Mutant of validateWordAssignments: the empty list does not return early.
validateWordAssignmentsWithoutReturn(text, segments, assignments) ==
  LET errors ==
        (IF Len(assignments) = 0 THEN <<NoAssignmentsError>> ELSE <<>>)
          \o validationErrors(text, segments, assignments)
  IN  [valid |-> Len(errors) = 0, errors |-> errors]

\* The value validateWordAssignments returns.
validateWordAssignments(text, segments, assignments) ==
  IF Len(assignments) = 0
  THEN [valid |-> FALSE, errors |-> <<NoAssignmentsError>>]
  ELSE LET errors == validationErrors(text, segments, assignments)
       IN  [valid |-> Len(errors) = 0, errors |-> errors]

\* The array behind the wordAssignments argument when the call returns: the
\* early return leaves it alone, the sort reorders it in place.
assignmentsAfterValidation(assignments) ==
  IF Len(assignments) = 0 THEN assignments ELSE sortByPosition(assignments)

(***************************************************************************)
(* Specification SpecValidator: one call of validateWordAssignments        *)
(***************************************************************************)

MaxAssignments == 3

\* The words of the model's responses: "a", "b".
Words == { <<"a">>, <<"b">> }

\* The transcripts: "a", "a b", "b a", "a b a", and "a  b " whose whitespace
\* is not normalized.
Transcripts ==
  { <<"a">>,
    <<"a", " ", "b">>,
    <<"b", " ", "a">>,
    <<"a", " ", "b", " ", "a">>,
    <<"a", " ", " ", "b", " ">> }

Segments(hook, bridge, nugget, wta) ==
  [Hook |-> hook, Bridge |-> bridge, GoldenNugget |-> nugget, WTA |-> wta]

\* Segmentations whose concatenations normalize to "a", "a b", "b a", "a b a".
SegmentChoices ==
  { Segments(<<"a">>, <<>>, <<>>, <<>>),
    Segments(<<"a">>, <<"b">>, <<>>, <<>>),
    Segments(<<"b">>, <<>>, <<>>, <<"a">>),
    Segments(<<"a">>, <<"b">>, <<"a">>, <<>>) }

\* The category of the i-th assignment of a response: all words in the Hook,
\* or the four categories in turn.
CategoryPatterns ==
  { [i \in 1..MaxAssignments |-> "Hook"],
    [i \in 1..MaxAssignments |->
       <<"Hook", "Bridge", "Golden Nugget", "WTA">>[((i - 1) % 4) + 1]] }

AssignmentLists ==
  UNION { { [i \in 1..n |->
               [word |-> w[i], category |-> cat[i], position |-> p[i]]] :
              w \in [1..n -> Words],
              p \in [1..n -> 0..(MaxAssignments + 1)],
              cat \in CategoryPatterns } :
          n \in 0..MaxAssignments }

NoValidation == <<>>

InitValidator ==
  /\ pc = "ready"
  /\ transcription \in Transcripts
  /\ marketingSegments \in SegmentChoices
  /\ wordAssignments \in AssignmentLists
  /\ validation = NoValidation
  /\ content = Unused /\ topic = Unused
  /\ transcriptionResults = Unused /\ syntheticScripts = Unused
  /\ options = Unused /\ dataset = Unused
  /\ ExportUnused
  /\ ServiceUnused

ValidateWordAssignments ==
  /\ pc = "ready"
  /\ validation' = validateWordAssignments(transcription, marketingSegments,
                                           wordAssignments)
  /\ wordAssignments' = assignmentsAfterValidation(wordAssignments)
  /\ pc' = "done"
  /\ UNCHANGED <<serviceVars, transcription, marketingSegments, topicVars, datasetVars,
                 exportVars>>

NextValidator == ValidateWordAssignments

SpecValidator == InitValidator /\ [][NextValidator]_vars

(***************************************************************************)
(* Claims about validateWordAssignments                                    *)
(***************************************************************************)

\* The whitespace-normalized form of a text, stated by its words: the
\* non-empty maximal runs of non-whitespace, joined by single spaces.
Canonical(s) ==
  join(SelectSeq(splitWhitespace(s), LAMBDA t : t # <<>>), Space)

\* Hook + " " + Bridge + " " + Golden Nugget + " " + WTA
SegmentsText(segments) ==
  segments.Hook \o Space \o segments.Bridge \o Space
    \o segments.GoldenNugget \o Space \o segments.WTA

PositionSet(assignments) == {assignments[i].position : i \in 1..Len(assignments)}

\* The positions are exactly 1..N, each carried once.
IsPartition(assignments) ==
  /\ Len(assignments) > 0
  /\ PositionSet(assignments) = 1..Len(assignments)

\* The words joined in position order with single spaces (of a partition).
WordsInPositionOrder(assignments) ==
  join([k \in 1..Len(assignments) |->
          assignments[CHOOSE i \in 1..Len(assignments) :
                        assignments[i].position = k].word],
       Space)

ErrorsOfKind(kind) ==
  SelectSeq(validation.errors, LAMBDA e : e.kind = kind)

SegmentsDiffer ==
  Canonical(SegmentsText(marketingSegments)) # Canonical(transcription)

\* C4: for every non-empty assignment list whose positions are exactly 1..N
\* and whose words, joined in position order with single spaces, equal the
\* whitespace-normalized transcript, validateWordAssignments returns
\* valid = true with no errors.
C4_PartitionCompleteness ==
  (/\ pc = "done"
   /\ IsPartition(wordAssignments)
   /\ WordsInPositionOrder(wordAssignments) = Canonical(transcription))
  => (validation.valid /\ validation.errors = <<>>)

\* C4 as amended: the same, for segments whose concatenation normalizes to
\* the transcript as well.
C4_PartitionCompletenessGivenSegments ==
  (/\ pc = "done"
   /\ IsPartition(wordAssignments)
   /\ WordsInPositionOrder(wordAssignments) = Canonical(transcription)
   /\ ~SegmentsDiffer)
  => (validation.valid /\ validation.errors = <<>>)

C4_Witness ==
  /\ pc = "done"
  /\ Len(wordAssignments) >= 2
  /\ IsPartition(wordAssignments)
  /\ WordsInPositionOrder(wordAssignments) = Canonical(transcription)
  /\ transcription # Canonical(transcription)
  /\ ~SegmentsDiffer
  /\ validation.valid

\* C5: a list that carries every position of 1..M except k, for M >= 2 and
\* k < M, gets exactly one missing-positions error, which lists exactly k.
C5_OneMissingPosition ==
  pc = "done" =>
    \A k \in 1..Len(wordAssignments) :
      (PositionSet(wordAssignments) = (1..(Len(wordAssignments) + 1)) \ {k})
      => /\ Len(ErrorsOfKind("Missing word positions")) = 1
         /\ ErrorsOfKind("Missing word positions")[1].positions = <<k>>

C5_Witness ==
  /\ pc = "done"
  /\ Len(wordAssignments) = MaxAssignments
  /\ PositionSet(wordAssignments) = (1..(MaxAssignments + 1)) \ {1}
  /\ ErrorsOfKind("Missing word positions") = <<MissingPositionsError(<<1>>)>>

\* C6: whenever the normalized concatenation of the four segments differs
\* from the normalized transcript, a segment-concatenation error is reported,
\* as an entry of its own.
C6_SegmentMismatchReported ==
  (pc = "done" /\ SegmentsDiffer)
  => Len(ErrorsOfKind(SegmentsMismatchError.kind)) = 1

\* C6 as amended: for a non-empty assignment list, the segment-concatenation
\* error is reported exactly when the segments differ from the transcript and
\* the reconstruction error exactly when the words in sorted order do, each
\* as one entry of its own, so that each is reported without the other.
C6_SegmentMismatchIndependent ==
  (pc = "done" /\ Len(wordAssignments) > 0)
  => /\ Len(ErrorsOfKind(SegmentsMismatchError.kind))
          = (IF SegmentsDiffer THEN 1 ELSE 0)
     /\ Len(ErrorsOfKind("Word assignments don't match original transcript"))
          = (IF Canonical(join([i \in 1..Len(wordAssignments) |->
                                  wordAssignments[i].word], Space))
                  # Canonical(transcription)
             THEN 1 ELSE 0)

\* The segment error without the reconstruction error.
C6_Witness ==
  /\ pc = "done"
  /\ Len(wordAssignments) > 0
  /\ SegmentsDiffer
  /\ validation.errors = <<SegmentsMismatchError>>

\* The reconstruction error without the segment error.
C6_ReconstructionOnly ==
  /\ pc = "done"
  /\ ~SegmentsDiffer
  /\ Len(validation.errors) = 1
  /\ validation.errors[1].kind = "Word assignments don't match original transcript"

\* C7: validateWordAssignments has no side effects: the call leaves the
\* assignments list with the same elements in the same order, and the
\* transcript and the segments unchanged.
C7_NoSideEffects ==
  [][/\ wordAssignments' = wordAssignments
     /\ transcription' = transcription
     /\ marketingSegments' = marketingSegments]_vars


(***************************************************************************)
(* TrainingDataExporter.generateTrainingDataset                            *)
(***************************************************************************)

\* An optional property of a JavaScript object is a field the record has or
\* has not: result.metadata?.viewCount is defined when hasMetadata holds.
hasMetadata(result, field) ==
  /\ "metadata" \in DOMAIN result
  /\ field \in DOMAIN result.metadata

\* (result.metadata?.viewCount || 0): an undefined count and a count of 0 both
\* give 0.
viewCountOrZero(result) ==
  IF hasMetadata(result, "viewCount") THEN result.metadata.viewCount ELSE 0

\* if (result.metadata?.viewCount): the count is defined and not 0
truthyCount(result, field) ==
  hasMetadata(result, field) /\ result.metadata[field] # 0

\* const { includeMetadata = true, ... minViewCount = 0 } = options
optionOr(opts, name, default) ==
  IF name \in DOMAIN opts THEN opts[name] ELSE default

\* Mutant of isValidTranscription: the view-count threshold is not applied.
isValidTranscriptionAnyViewCount(result, minViewCount) ==
  /\ result.success
  /\ "marketingSegments" \in DOMAIN result

\* The predicate of transcriptionResults.filter(...)
isValidTranscription(result, minViewCount) ==
  /\ result.success
  /\ "marketingSegments" \in DOMAIN result
  /\ viewCountOrZero(result) >= minViewCount

\* `${segments.Hook} ${segments.Bridge} ${segments["Golden Nugget"]} ${segments.WTA}`.trim()
fullScriptOf(segments) ==
  trim(segments.Hook \o Space \o segments.Bridge \o Space
         \o segments.GoldenNugget \o Space \o segments.WTA)

\* "Write a compelling short-form video script about "
PromptPrefix == <<"W", "r", "i", "t", "e", " ", "a", " ", "c", "o", "m", "p", "e", "l", "l", "i", "n", "g", " ", "s", "h", "o", "r", "t", "-", "f", "o", "r", "m", " ", "v", "i", "d", "e", "o", " ", "s", "c", "r", "i", "p", "t", " ", "a", "b", "o", "u", "t", " ">>

\* " that follows the Hook-Bridge-Golden Nugget-WTA structure for maximum engagement."
PromptSuffix == <<" ", "t", "h", "a", "t", " ", "f", "o", "l", "l", "o", "w", "s", " ", "t", "h", "e", " ", "H", "o", "o", "k", "-", "B", "r", "i", "d", "g", "e", "-", "G", "o", "l", "d", "e", "n", " ", "N", "u", "g", "g", "e", "t", "-", "W", "T", "A", " ", "s", "t", "r", "u", "c", "t", "u", "r", "e", " ", "f", "o", "r", " ", "m", "a", "x", "i", "m", "u", "m", " ", "e", "n", "g", "a", "g", "e", "m", "e", "n", "t", ".">>

promptFor(topicText) == PromptPrefix \o topicText \o PromptSuffix

\* The properties of an object literal whose value is undefined are left out.
optionalCount(result, field) ==
  IF hasMetadata(result, field)
  THEN [f \in {field} |-> result.metadata[field]]
  ELSE <<>>

createOriginalTrainingExample(result, includeMetadata) ==
  LET fullScript == fullScriptOf(result.marketingSegments)
      topicText  == extractTopicFromContent(fullScript)
      example    == [input |-> promptFor(topicText), output |-> fullScript]
  IN  IF includeMetadata
      THEN example @@
           [metadata |->
              [source |-> "original",
               videoId |-> result.videoId,
               platform |-> result.platform,
               topic |-> topicText,
               templateUsed |-> FALSE,
               processingTime |-> result.processingTime]
              @@ optionalCount(result, "viewCount")
              @@ optionalCount(result, "likeCount")]
      ELSE example

\* Mutant of createSyntheticTrainingExample: the topic is derived from the
\* script, as it is for an original example.
createSyntheticExampleDerivingTopic(topicText, script, includeMetadata) ==
  LET fullScript == fullScriptOf(script)
      derived    == extractTopicFromContent(fullScript)
      example    == [input |-> promptFor(derived), output |-> fullScript]
  IN  IF includeMetadata
      THEN example @@
           [metadata |->
              [source |-> "synthetic", topic |-> derived, templateUsed |-> TRUE]]
      ELSE example

createSyntheticTrainingExample(topicText, script, includeMetadata) ==
  LET fullScript == fullScriptOf(script)
      example    == [input |-> promptFor(topicText), output |-> fullScript]
  IN  IF includeMetadata
      THEN example @@
           [metadata |->
              [source |-> "synthetic", topic |-> topicText, templateUsed |-> TRUE]]
      ELSE example

\* Mutant of setAdd: the value is pushed whether or not it is there already.
arrayPush(set, value) == Append(set, value)

\* Set.prototype.add: a Set keeps its values once each, in insertion order,
\* which is the order Array.from gives.
setAdd(set, value) ==
  IF \E i \in 1..Len(set) : set[i] = value THEN set ELSE Append(set, value)

\* Math.round(total / count) for total >= 0 and count > 0
roundedMean(total, count) == (2 * total + count) \div (2 * count)

\* The locals of generateTrainingDataset before the loops.
EmptyAccumulator ==
  [examples |-> <<>>, platforms |-> <<>>, topics |-> <<>>,
   totalViewCount |-> 0, totalLikeCount |-> 0,
   viewCountCount |-> 0, likeCountCount |-> 0]

\* One iteration of the loop over validTranscriptions.
addOriginal(acc, result, includeMetadata) ==
  [acc EXCEPT
     !.examples  = Append(@, createOriginalTrainingExample(result, includeMetadata)),
     !.platforms = setAdd(@, result.platform),
     !.totalViewCount = IF truthyCount(result, "viewCount")
                        THEN @ + result.metadata.viewCount ELSE @,
     !.viewCountCount = IF truthyCount(result, "viewCount") THEN @ + 1 ELSE @,
     !.totalLikeCount = IF truthyCount(result, "likeCount")
                        THEN @ + result.metadata.likeCount ELSE @,
     !.likeCountCount = IF truthyCount(result, "likeCount") THEN @ + 1 ELSE @]

RECURSIVE addOriginals(_, _, _)
addOriginals(acc, valid, includeMetadata) ==
  IF valid = <<>> THEN acc
  ELSE addOriginals(addOriginal(acc, Head(valid), includeMetadata),
                    Tail(valid), includeMetadata)

\* Mutant of addSynthetic: the example is put in front of the array.
addSyntheticFirst(acc, synthetic, includeMetadata) ==
  [acc EXCEPT
     !.examples = <<createSyntheticTrainingExample(
                      synthetic.topic, synthetic.script, includeMetadata)>> \o @,
     !.topics   = setAdd(@, synthetic.topic)]

\* One iteration of the loop over syntheticScripts.
addSynthetic(acc, synthetic, includeMetadata) ==
  [acc EXCEPT
     !.examples = Append(@, createSyntheticTrainingExample(
                              synthetic.topic, synthetic.script, includeMetadata)),
     !.topics   = setAdd(@, synthetic.topic)]

RECURSIVE addSynthetics(_, _, _)
addSynthetics(acc, synthetics, includeMetadata) ==
  IF synthetics = <<>> THEN acc
  ELSE addSynthetics(addSynthetic(acc, Head(synthetics), includeMetadata),
                     Tail(synthetics), includeMetadata)

\* Mutant of countBySource: every example that carries metadata is counted.
countWithMetadata(examples, source) ==
  Cardinality({i \in 1..Len(examples) : "metadata" \in DOMAIN examples[i]})

\* examples.filter(e => e.metadata?.source === source).length
countBySource(examples, source) ==
  Cardinality({i \in 1..Len(examples) :
                 /\ "metadata" \in DOMAIN examples[i]
                 /\ examples[i].metadata.source = source})

\* avgViewCount: count > 0 ? Math.round(total / count) : undefined
optionalAverage(field, total, count) ==
  IF count > 0 THEN [f \in {field} |-> roundedMean(total, count)] ELSE <<>>

\* The summary and the description of the returned dataset; createdAt, the
\* time of the call, is left out.
datasetOf(acc) ==
  [examples |-> acc.examples,
   summary  |->
     [totalExamples     |-> Len(acc.examples),
      originalExamples  |-> countBySource(acc.examples, "original"),
      syntheticExamples |-> countBySource(acc.examples, "synthetic"),
      platforms |-> acc.platforms,
      topics    |-> acc.topics]
     @@ optionalAverage("avgViewCount", acc.totalViewCount, acc.viewCountCount)
     @@ optionalAverage("avgLikeCount", acc.totalLikeCount, acc.likeCountCount),
   metadata |->
     [description |->
        [examples  |-> Len(acc.examples),
         original  |-> countBySource(acc.examples, "original"),
         synthetic |-> countBySource(acc.examples, "synthetic")]]]

\* The templates argument is only logged and passed on as templates[0],
\* which createSyntheticTrainingExample does not read.
generateTrainingDataset(results, synthetics, opts) ==
  LET includeMetadata  == optionOr(opts, "includeMetadata", TRUE)
      includeOriginal  == optionOr(opts, "includeOriginalTranscriptions", TRUE)
      includeSynthetic == optionOr(opts, "includeSyntheticScripts", TRUE)
      minViewCount     == optionOr(opts, "minViewCount", 0)
      validTranscriptions ==
        SelectSeq(results, LAMBDA r : isValidTranscription(r, minViewCount))
      afterOriginals ==
        IF includeOriginal
        THEN addOriginals(EmptyAccumulator, validTranscriptions, includeMetadata)
        ELSE EmptyAccumulator
      afterSynthetics ==
        IF includeSynthetic /\ Len(synthetics) > 0
        THEN addSynthetics(afterOriginals, synthetics, includeMetadata)
        ELSE afterOriginals
  IN  datasetOf(afterSynthetics)

(***************************************************************************)
(* Specification Spec: one call of generateTrainingDataset                 *)
(***************************************************************************)

MaxResults == 2

MaxSynthetic == 2

\* "v1", "v2", ...: the id of the i-th video
videoIdOf(i) ==
  <<"v", <<"0", "1", "2", "3", "4", "5", "6", "7", "8", "9">>[i + 1]>>

\* Hook "Gym plan", Bridge "Health", Golden Nugget "Lift", WTA "Go"
GymSegments ==
  Segments(<<"G", "y", "m", " ", "p", "l", "a", "n">>,
           <<"H", "e", "a", "l", "t", "h">>,
           <<"L", "i", "f", "t">>,
           <<"G", "o">>)

\* Hook "Money", Bridge "", Golden Nugget "Save", WTA "Go "
MoneySegments ==
  Segments(<<"M", "o", "n", "e", "y">>,
           <<>>,
           <<"S", "a", "v", "e">>,
           <<"G", "o", " ">>)

\* "Not Present": the placeholder of the parser's manual extraction
NotPresent == <<"N", "o", "t", " ", "P", "r", "e", "s", "e", "n", "t">>

NotPresentSegments == Segments(NotPresent, NotPresent, NotPresent, NotPresent)

\* A transcription result as createTranscriptionResult and the route's
\* callers build it; segments and metadata are <<>> when absent.
Result(success, platform, segments, metadata) ==
  [success |-> success, platform |-> platform, processingTime |-> 0]
    @@ segments @@ metadata

WithSegments(segments) == [marketingSegments |-> segments]

WithMetadata(metadata) == [metadata |-> metadata]

ResultChoices ==
  { Result(FALSE, "tiktok", <<>>, <<>>),
    Result(TRUE, "instagram", <<>>,
           WithMetadata([viewCount |-> 1000, likeCount |-> 10])),
    Result(FALSE, "instagram", WithSegments(GymSegments),
           WithMetadata([viewCount |-> 1000, likeCount |-> 10])),
    Result(TRUE, "tiktok", WithSegments(GymSegments),
           WithMetadata([viewCount |-> 1000, likeCount |-> 10])),
    Result(TRUE, "tiktok", WithSegments(GymSegments),
           WithMetadata([viewCount |-> 500, likeCount |-> 5])),
    Result(TRUE, "instagram", WithSegments(NotPresentSegments),
           WithMetadata([viewCount |-> 0, likeCount |-> 0])),
    Result(TRUE, "instagram", WithSegments(MoneySegments), <<>>),
    Result(TRUE, "tiktok", WithSegments(MoneySegments),
           WithMetadata([likeCount |-> 10])) }

ResultLists ==
  UNION { { [i \in 1..n |-> rs[i] @@ [videoId |-> videoIdOf(i)]] :
              rs \in [1..n -> ResultChoices] } :
          n \in 0..MaxResults }

\* 'fitness motivation', of DEFAULT_SYNTHETIC_TOPICS
FitnessMotivation == <<"f", "i", "t", "n", "e", "s", "s", " ", "m", "o", "t", "i", "v", "a", "t", "i", "o", "n">>

\* The pre-generated scripts: one for 'fitness motivation', one for 'fitness'.
SyntheticChoices ==
  { [topic |-> FitnessMotivation, script |-> GymSegments],
    [topic |-> Fitness, script |-> MoneySegments] }

SyntheticLists ==
  UNION { [1..n -> SyntheticChoices] : n \in 0..MaxSynthetic }

\* The options of the export route, and {} for the defaults.
OptionChoices ==
  [includeMetadata : BOOLEAN,
   includeOriginalTranscriptions : BOOLEAN,
   includeSyntheticScripts : BOOLEAN,
   minViewCount : {0, 500}]
    \cup { <<>> }

NoDataset == <<>>

Init ==
  /\ pc = "ready"
  /\ transcriptionResults \in ResultLists
  /\ syntheticScripts \in SyntheticLists
  /\ options \in OptionChoices
  /\ dataset = NoDataset
  /\ content = Unused /\ topic = Unused
  /\ transcription = Unused /\ marketingSegments = Unused
  /\ wordAssignments = Unused /\ validation = Unused
  /\ ExportUnused
  /\ ServiceUnused

GenerateTrainingDataset ==
  /\ pc = "ready"
  /\ dataset' = generateTrainingDataset(transcriptionResults, syntheticScripts,
                                        options)
  /\ pc' = "done"
  /\ UNCHANGED <<serviceVars, transcriptionResults, syntheticScripts, options,
                 topicVars, validatorVars, exportVars>>

Next == GenerateTrainingDataset

Spec == Init /\ [][Next]_vars

(***************************************************************************)
(* Claims about generateTrainingDataset                                    *)
(***************************************************************************)

Range(seq) == {seq[i] : i \in 1..Len(seq)}

NoDuplicates(seq) == \A i, j \in 1..Len(seq) : seq[i] = seq[j] => i = j

IncludeMetadata  == optionOr(options, "includeMetadata", TRUE)
IncludeOriginal  == optionOr(options, "includeOriginalTranscriptions", TRUE)
IncludeSynthetic == optionOr(options, "includeSyntheticScripts", TRUE)
MinViewCount     == optionOr(options, "minViewCount", 0)

\* success == true, segments present, (metadata.viewCount ?? 0) >= minViewCount
Qualifies(r) ==
  /\ r.success = TRUE
  /\ "marketingSegments" \in DOMAIN r
  /\ \/ /\ "metadata" \in DOMAIN r
        /\ "viewCount" \in DOMAIN r.metadata
        /\ r.metadata.viewCount >= MinViewCount
     \/ /\ ~("metadata" \in DOMAIN r /\ "viewCount" \in DOMAIN r.metadata)
        /\ 0 >= MinViewCount

\* The results an original example is due for, in input order.
IncludedResults ==
  IF IncludeOriginal THEN SelectSeq(transcriptionResults, Qualifies) ELSE <<>>

\* The synthetic pairs an example is due for, in input order.
IncludedSynthetics == IF IncludeSynthetic THEN syntheticScripts ELSE <<>>

\* The four segments in the order Hook, Bridge, Golden Nugget, WTA, joined
\* with single spaces, without the whitespace at either end.
ScriptText(segments) == trim(SegmentsText(segments))

\* The topic an example was built for, read back from its prompt.
TopicOfExample(e) ==
  SubSeq(e.input, Len(PromptPrefix) + 1, Len(e.input) - Len(PromptSuffix))

\* C1: in every dataset returned by generateTrainingDataset, for any inputs
\* and options, originalExamples + syntheticExamples = totalExamples =
\* examples.length.
C1_DatasetArithmetic ==
  pc = "done" =>
    /\ dataset.summary.totalExamples = Len(dataset.examples)
    /\ dataset.summary.originalExamples + dataset.summary.syntheticExamples
         = dataset.summary.totalExamples

\* C2: summary.topics has no duplicates and is exactly the set of topics of
\* the examples: the caller-supplied topic of every synthetic example and the
\* extracted topic of every original example.
C2_TopicsOfExamples ==
  pc = "done" =>
    /\ NoDuplicates(dataset.summary.topics)
    /\ Range(dataset.summary.topics)
         = {TopicOfExample(e) : e \in Range(dataset.examples)}

C9_OriginalsAreTheQualifyingResults ==
  pc = "done" =>
    LET originals == Len(dataset.examples) - Len(IncludedSynthetics)
    IN  /\ originals = Len(IncludedResults)
        /\ \A i \in 1..Len(IncludedResults) :
             /\ dataset.examples[i].output
                  = ScriptText(IncludedResults[i].marketingSegments)
             /\ IncludeMetadata =>
                  /\ dataset.examples[i].metadata.source = "original"
                  /\ dataset.examples[i].metadata.videoId
                       = IncludedResults[i].videoId
        /\ \A j \in 1..Len(IncludedSynthetics) :
             dataset.examples[originals + j].output
               = ScriptText(IncludedSynthetics[j].script)

\* A result below the threshold is left out and a later one is taken.
C9_Witness ==
  /\ pc = "done"
  /\ Len(transcriptionResults) = 2
  /\ transcriptionResults[1].success
  /\ "marketingSegments" \in DOMAIN transcriptionResults[1]
  /\ ~Qualifies(transcriptionResults[1])
  /\ Qualifies(transcriptionResults[2])
  /\ IncludeOriginal /\ IncludeMetadata
  /\ dataset.examples[1].metadata.videoId = transcriptionResults[2].videoId

\* The included results whose metadata carries the field.
Carriers(field) ==
  SelectSeq(IncludedResults,
            LAMBDA r : "metadata" \in DOMAIN r /\ field \in DOMAIN r.metadata)

RECURSIVE SumOf(_, _)
SumOf(results, field) ==
  IF results = <<>> THEN 0
  ELSE Head(results).metadata[field] + SumOf(Tail(results), field)

\* The integer nearest to total / count, the upper one of two.
NearestInteger(total, count) ==
  CHOOSE n \in 0..total :
    /\ 2 * n * count <= 2 * total + count
    /\ 2 * (n + 1) * count > 2 * total + count

AverageIsMeanOfCarriers(average, field) ==
  IF Carriers(field) = <<>>
  THEN average \notin DOMAIN dataset.summary
  ELSE /\ average \in DOMAIN dataset.summary
       /\ dataset.summary[average]
            = NearestInteger(SumOf(Carriers(field), field), Len(Carriers(field)))

\* C10: avgViewCount (avgLikeCount) is the integer-rounded mean of viewCount
\* (likeCount) over the included results that carry the field, a carried 0
\* included, and is undefined exactly when no included result carries it.
C10_AveragesOverCarriers ==
  pc = "done" =>
    /\ AverageIsMeanOfCarriers("avgViewCount", "viewCount")
    /\ AverageIsMeanOfCarriers("avgLikeCount", "likeCount")

\* The scenario of C11: the default options, two successful "tiktok" results
\* with four segments each and view counts 1000 and 500, one synthetic pair.
EndToEndScenario ==
  /\ options = <<>>
  /\ Len(transcriptionResults) = 2
  /\ \A i \in 1..2 :
       /\ transcriptionResults[i].success
       /\ transcriptionResults[i].platform = "tiktok"
       /\ "marketingSegments" \in DOMAIN transcriptionResults[i]
       /\ hasMetadata(transcriptionResults[i], "viewCount")
  /\ {transcriptionResults[i].metadata.viewCount : i \in 1..2} = {1000, 500}
  /\ Len(syntheticScripts) = 1

\* C11: in the end-to-end scenario the dataset has totalExamples = 3,
\* originalExamples = 2, syntheticExamples = 1, avgViewCount = 750 and
\* platforms = ["tiktok"].
C11_EndToEndScenario ==
  (pc = "done" /\ EndToEndScenario) =>
    /\ dataset.summary.totalExamples = 3
    /\ dataset.summary.originalExamples = 2
    /\ dataset.summary.syntheticExamples = 1
    /\ "avgViewCount" \in DOMAIN dataset.summary
    /\ dataset.summary.avgViewCount = 750
    /\ dataset.summary.platforms = <<"tiktok">>

C11_Witness ==
  /\ pc = "done"
  /\ EndToEndScenario
  /\ Len(dataset.examples) = 3
  /\ transcriptionResults[1].metadata.viewCount = 1000

\* The example built from the i-th included result, and the one built from
\* the j-th included synthetic pair.
OriginalExample(i) == dataset.examples[i]

SyntheticExample(j) == dataset.examples[Len(IncludedResults) + j]

\* The topic extractTopicFromContent gives for the script of a result.
ExtractedTopic(result) ==
  extractTopicFromContent(ScriptText(result.marketingSegments))

\* C14: an original example whose extracted topic is t and a synthetic
\* example built with the caller-supplied topic t have the same input; every
\* output is the four segments in the order Hook, Bridge, Golden Nugget, WTA
\* joined with single spaces and trimmed; the input of a synthetic example
\* names the caller's topic, never one derived from its script.
C14_InterchangeablePrompts ==
  pc = "done" =>
    /\ Len(dataset.examples) = Len(IncludedResults) + Len(IncludedSynthetics)
    /\ \A i \in 1..Len(IncludedResults) :
         OriginalExample(i).output
           = ScriptText(IncludedResults[i].marketingSegments)
    /\ \A j \in 1..Len(IncludedSynthetics) :
         /\ SyntheticExample(j).output
              = ScriptText(IncludedSynthetics[j].script)
         /\ SyntheticExample(j).input
              = PromptPrefix \o IncludedSynthetics[j].topic \o PromptSuffix
         /\ IncludeMetadata =>
              SyntheticExample(j).metadata.topic = IncludedSynthetics[j].topic
    /\ \A i \in 1..Len(IncludedResults), j \in 1..Len(IncludedSynthetics) :
         ExtractedTopic(IncludedResults[i]) = IncludedSynthetics[j].topic
           => OriginalExample(i).input = SyntheticExample(j).input

\* An original example on 'fitness' next to a synthetic one whose caller
\* said 'fitness' for a script about money.
C14_Witness ==
  /\ pc = "done"
  /\ Len(IncludedResults) = 1
  /\ Len(IncludedSynthetics) = 1
  /\ ExtractedTopic(IncludedResults[1]) = Fitness
  /\ IncludedSynthetics[1].topic = Fitness
  /\ extractTopicFromContent(ScriptText(IncludedSynthetics[1].script)) # Fitness
  /\ OriginalExample(1).input = SyntheticExample(1).input
  /\ OriginalExample(1).output # SyntheticExample(1).output

(***************************************************************************)
(* exportToJSONL (training-data-exporter.ts)                               *)
(***************************************************************************)

Quote == "\""

Backslash == "\\"

Newline == "\n"

Tab == "\t"

\* QuoteJSONString of ECMA-262 on one character of the model's alphabet:
\* the quotation mark, the backslash, the line feed and the tab get their
\* two-character escapes, any other character stands for itself.
escapeCharacter(c) ==
  CASE c = Quote     -> <<Backslash, Quote>>
    [] c = Backslash -> <<Backslash, Backslash>>
    [] c = Newline   -> <<Backslash, "n">>
    [] c = Tab       -> <<Backslash, "t">>
    [] OTHER         -> <<c>>

\* pieces[lo] \o ... \o pieces[hi], put together by halves
RECURSIVE concatenation(_, _, _)
concatenation(pieces, lo, hi) ==
  IF lo > hi THEN <<>>
  ELSE IF lo = hi THEN pieces[lo]
       ELSE LET mid == (lo + hi) \div 2
            IN  concatenation(pieces, lo, mid) \o concatenation(pieces, mid + 1, hi)

escapeCharacters(s) ==
  concatenation([i \in 1..Len(s) |-> escapeCharacter(s[i])], 1, Len(s))

\* Mutant of stringifyString: the characters are written as they are.
stringifyStringUnescaped(s) == <<Quote>> \o s \o <<Quote>>

\* JSON.stringify of a string
stringifyString(s) == <<Quote>> \o escapeCharacters(s) \o <<Quote>>

Digits == <<"0", "1", "2", "3", "4", "5", "6", "7", "8", "9">>

\* JSON.stringify of a non-negative integer
RECURSIVE stringifyNumber(_)
stringifyNumber(n) ==
  IF n < 10 THEN <<Digits[n + 1]>>
  ELSE stringifyNumber(n \div 10) \o <<Digits[(n % 10) + 1]>>

\* JSON.stringify of a boolean
stringifyBoolean(b) ==
  IF b THEN <<"t", "r", "u", "e">> ELSE <<"f", "a", "l", "s", "e">>

\* The characters of a key of the model, a TLA+ string, one by one.
keyCharacters(key) ==
  CASE key = "input"          -> <<"i", "n", "p", "u", "t">>
    [] key = "output"         -> <<"o", "u", "t", "p", "u", "t">>
    [] key = "metadata"       -> <<"m", "e", "t", "a", "d", "a", "t", "a">>
    [] key = "source"         -> <<"s", "o", "u", "r", "c", "e">>
    [] key = "videoId"        -> <<"v", "i", "d", "e", "o", "I", "d">>
    [] key = "platform"       -> <<"p", "l", "a", "t", "f", "o", "r", "m">>
    [] key = "viewCount"      -> <<"v", "i", "e", "w", "C", "o", "u", "n", "t">>
    [] key = "likeCount"      -> <<"l", "i", "k", "e", "C", "o", "u", "n", "t">>
    [] key = "topic"          -> <<"t", "o", "p", "i", "c">>
    [] key = "templateUsed"   -> <<"t", "e", "m", "p", "l", "a", "t", "e", "U", "s", "e", "d">>
    [] key = "processingTime" -> <<"p", "r", "o", "c", "e", "s", "s", "i", "n", "g", "T", "i", "m", "e">>
    [] key = "original"       -> <<"o", "r", "i", "g", "i", "n", "a", "l">>
    [] key = "synthetic"      -> <<"s", "y", "n", "t", "h", "e", "t", "i", "c">>
    [] key = "tiktok"         -> <<"t", "i", "k", "t", "o", "k">>
    [] key = "instagram"      -> <<"i", "n", "s", "t", "a", "g", "r", "a", "m">>

\* "key":value
stringifyProperty(key, value) ==
  stringifyString(keyCharacters(key)) \o <<":">> \o value

\* The properties of example.metadata in the order the object literals of
\* createOriginalTrainingExample and createSyntheticTrainingExample give them.
MetadataKeys ==
  <<"source", "videoId", "platform", "viewCount", "likeCount", "topic",
    "templateUsed", "processingTime">>

\* JSON.stringify of the value of one property of example.metadata
stringifyMetadataValue(key, value) ==
  CASE key \in {"source", "platform"} -> stringifyString(keyCharacters(value))
    [] key \in {"videoId", "topic"}   -> stringifyString(value)
    [] key = "templateUsed"           -> stringifyBoolean(value)
    [] OTHER                          -> stringifyNumber(value)

\* JSON.stringify of an object: its properties, separated by commas, in braces
stringifyObject(properties) == <<"{">> \o join(properties, <<",">>) \o <<"}">>

stringifyMetadata(metadata) ==
  LET present == SelectSeq(MetadataKeys, LAMBDA k : k \in DOMAIN metadata)
  IN  stringifyObject(
        [i \in 1..Len(present) |->
           stringifyProperty(present[i],
                             stringifyMetadataValue(present[i], metadata[present[i]]))])

\* JSON.stringify(exportExample) of exportToJSONL's map callback
stringifyExample(example, includeMetadata) ==
  stringifyObject(
    << stringifyProperty("input", stringifyString(example.input)),
       stringifyProperty("output", stringifyString(example.output)) >>
    \o IF includeMetadata /\ "metadata" \in DOMAIN example
       THEN <<stringifyProperty("metadata", stringifyMetadata(example.metadata))>>
       ELSE <<>>)

\* dataset.examples.map(...).join('\n')
exportToJSONL(data, includeMetadata) ==
  join([i \in 1..Len(data.examples) |->
          stringifyExample(data.examples[i], includeMetadata)],
       <<Newline>>)

(***************************************************************************)
(* Specification SpecExport: generateTrainingDataset, then exportToJSONL   *)
(***************************************************************************)

\* Hook 'Say "hi"', Bridge 'a\b', Golden Nugget 'x<line feed>y', WTA 'Go<tab>'
QuotedSegments ==
  Segments(<<"S", "a", "y", " ", Quote, "h", "i", Quote>>,
           <<"a", Backslash, "b">>,
           <<"x", Newline, "y">>,
           <<"G", "o", Tab>>)

\* 'the "gym"': a topic a caller may pass with quotation marks in it
QuotedTopic == <<"t", "h", "e", " ", Quote, "g", "y", "m", Quote>>

ExportResultChoices ==
  { Result(FALSE, "tiktok", <<>>, <<>>),
    Result(TRUE, "tiktok", WithSegments(GymSegments),
           WithMetadata([viewCount |-> 1000, likeCount |-> 10])),
    Result(TRUE, "instagram", WithSegments(QuotedSegments), <<>>) }

ExportResultLists ==
  UNION { { [i \in 1..n |-> rs[i] @@ [videoId |-> videoIdOf(i)]] :
              rs \in [1..n -> ExportResultChoices] } :
          n \in 0..MaxResults }

ExportSyntheticChoices ==
  { [topic |-> FitnessMotivation, script |-> GymSegments],
    [topic |-> QuotedTopic, script |-> QuotedSegments] }

ExportSyntheticLists ==
  UNION { [1..n -> ExportSyntheticChoices] : n \in 0..MaxSynthetic }

ExportOptionChoices ==
  { <<>>,
    [includeMetadata |-> FALSE],
    [includeOriginalTranscriptions |-> FALSE],
    [includeSyntheticScripts |-> FALSE] }

InitExport ==
  /\ pc = "ready"
  /\ transcriptionResults \in ExportResultLists
  /\ syntheticScripts \in ExportSyntheticLists
  /\ options \in ExportOptionChoices
  /\ dataset = NoDataset
  /\ content = Unused /\ topic = Unused
  /\ transcription = Unused /\ marketingSegments = Unused
  /\ wordAssignments = Unused /\ validation = Unused
  /\ ExportUnused
  /\ ServiceUnused

ExportToJSONL ==
  /\ pc = "done"
  /\ \E includeMetadata \in BOOLEAN :
       jsonl' = exportToJSONL(dataset, includeMetadata)
  /\ pc' = "exported"
  /\ UNCHANGED <<serviceVars, datasetVars, topicVars, validatorVars, previousReport, report>>

NextExport == GenerateTrainingDataset \/ ExportToJSONL

SpecExport == InitExport /\ [][NextExport]_vars

(***************************************************************************)
(* Claims about exportToJSONL                                              *)
(***************************************************************************)

\* String.prototype.split('\n'): the pieces between the line feeds.
RECURSIVE splitAtLineFeeds(_)
splitAtLineFeeds(text) ==
  LET feeds == {i \in 1..Len(text) : text[i] = Newline}
  IN  IF feeds = {} THEN <<text>>
      ELSE LET first == CHOOSE i \in feeds : \A k \in feeds : i <= k
           IN  <<SubSeq(text, 1, first - 1)>>
                 \o splitAtLineFeeds(SubSeq(text, first + 1, Len(text)))

\* The lines of a JSONL text: a text of no characters has no line.
Lines(text) == IF text = <<>> THEN <<>> ELSE splitAtLineFeeds(text)

\* The number of backslashes that stand in a row right before position j,
\* none of them before position lo.
BackslashRun(text, lo, j) ==
  IF j <= lo \/ text[j - 1] # Backslash THEN 0
  ELSE LET stops == {k \in lo..(j - 1) : text[k] # Backslash}
       IN  IF stops = {} THEN j - lo
           ELSE (j - 1) - (CHOOSE k \in stops : \A m \in stops : m <= k)

Even(n) == n % 2 = 0

\* The character a JSON escape \c stands for.
Unescaped(c) ==
  CASE c = "n" -> Newline
    [] c = "t" -> Tab
    [] OTHER   -> c

NotJSON == [error |-> "not JSON"]

\* JSON.parse of the string literal whose opening quotation mark is at
\* position start: its value and the position after its closing mark.
StringLiteralAt(text, start) ==
  IF start > Len(text) \/ text[start] # Quote THEN NotJSON
  ELSE LET closings == {j \in (start + 1)..Len(text) :
                          /\ text[j] = Quote
                          /\ Even(BackslashRun(text, start + 1, j))}
       IN  IF closings = {} THEN NotJSON
           ELSE LET close == CHOOSE j \in closings : \A k \in closings : j <= k
                    piece(p) ==
                      IF ~Even(BackslashRun(text, start + 1, p))
                      THEN <<Unescaped(text[p])>>
                      ELSE IF text[p] = Backslash THEN <<>> ELSE <<text[p]>>
                    pieces == [i \in 1..(close - start - 1) |-> piece(start + i)]
                    plain  == \A p \in (start + 1)..(close - 1) :
                                text[p] \notin {Newline, Tab}
               IN  IF plain
                   THEN [value |-> concatenation(pieces, 1, Len(pieces)),
                         next  |-> close + 1]
                   ELSE NotJSON

InputKey == <<"{", Quote, "i", "n", "p", "u", "t", Quote, ":">>

OutputKey == <<",", Quote, "o", "u", "t", "p", "u", "t", Quote, ":">>

StartsAt(text, start, part) ==
  /\ start + Len(part) - 1 <= Len(text)
  /\ SubSeq(text, start, start + Len(part) - 1) = part

\* JSON.parse of a line of the form {"input":"...","output":"..."[,...]}:
\* the object's input and output.
ParsedLine(line) ==
  IF ~StartsAt(line, 1, InputKey) THEN NotJSON
  ELSE LET in == StringLiteralAt(line, Len(InputKey) + 1)
       IN  IF in = NotJSON \/ ~StartsAt(line, in.next, OutputKey) THEN NotJSON
           ELSE LET out == StringLiteralAt(line, in.next + Len(OutputKey))
                IN  IF out = NotJSON THEN NotJSON
                    ELSE IF /\ out.next <= Len(line)
                            /\ line[out.next] \in {",", "}"}
                            /\ (line[out.next] = "}" => out.next = Len(line))
                            /\ line[Len(line)] = "}"
                         THEN [input |-> in.value, output |-> out.value]
                         ELSE NotJSON

\* C12: the examples of a dataset are those of the included results, in
\* input order, followed by those of the included synthetic pairs, in input
\* order, and exportToJSONL gives one line per example in that order.
C12_OriginalsThenSyntheticsLineByLine ==
  /\ pc \in {"done", "exported"} =>
       /\ Len(dataset.examples) = Len(IncludedResults) + Len(IncludedSynthetics)
       /\ \A i \in 1..Len(IncludedResults) :
            /\ OriginalExample(i).output
                 = ScriptText(IncludedResults[i].marketingSegments)
            /\ IncludeMetadata =>
                 /\ OriginalExample(i).metadata.source = "original"
                 /\ OriginalExample(i).metadata.videoId = IncludedResults[i].videoId
       /\ \A j \in 1..Len(IncludedSynthetics) :
            /\ SyntheticExample(j).output
                 = ScriptText(IncludedSynthetics[j].script)
            /\ TopicOfExample(SyntheticExample(j)) = IncludedSynthetics[j].topic
            /\ IncludeMetadata => SyntheticExample(j).metadata.source = "synthetic"
  /\ pc = "exported" =>
       /\ Len(Lines(jsonl)) = Len(dataset.examples)
       /\ \A k \in 1..Len(dataset.examples) :
            /\ ParsedLine(Lines(jsonl)[k]) # NotJSON
            /\ ParsedLine(Lines(jsonl)[k]).output = dataset.examples[k].output

\* Two originals with different scripts before two synthetic examples with
\* different scripts, exported on four lines.
C12_Witness ==
  /\ pc = "exported"
  /\ Len(IncludedResults) = 2
  /\ Len(IncludedSynthetics) = 2
  /\ IncludedResults[1].marketingSegments # IncludedResults[2].marketingSegments
  /\ IncludedSynthetics[1].script # IncludedSynthetics[2].script
  /\ IncludedResults[2].marketingSegments # IncludedSynthetics[1].script
  /\ Len(Lines(jsonl)) = 4

\* C13: the lines of the text exportToJSONL returns, each parsed as JSON, are
\* as many objects as the dataset has examples, and the input and output of
\* the i-th object are those of the i-th example.
C13_JSONLRoundTrip ==
  pc = "exported" =>
    LET lines == Lines(jsonl)
    IN  /\ Len(lines) = Len(dataset.examples)
        /\ \A i \in 1..Len(lines) :
             LET object == ParsedLine(lines[i])
             IN  /\ object # NotJSON
                 /\ object.input = dataset.examples[i].input
                 /\ object.output = dataset.examples[i].output

\* An example whose input has quotation marks and whose output has quotation
\* marks, a backslash and a line feed, exported with its metadata next to
\* another example.
C13_Witness ==
  /\ pc = "exported"
  /\ Len(dataset.examples) = 2
  /\ \E i \in 1..2 :
       /\ Quote \in Range(dataset.examples[i].input)
       /\ {Quote, Backslash, Newline} \subseteq Range(dataset.examples[i].output)
       /\ "metadata" \in DOMAIN dataset.examples[i]
  /\ Len(Lines(jsonl)) = 2
  /\ \E i \in 1..Len(jsonl) - 7 :
       SubSeq(jsonl, i, i + 7) = <<"m", "e", "t", "a", "d", "a", "t", "a">>

(***************************************************************************)
(* validateDataset (training-data-exporter.ts)                             *)
(***************************************************************************)

\* A JavaScript number: an integer, or one of the three values that are not.
Number(n) == [class |-> "finite", value |-> n]

NaN == [class |-> "NaN"]

PositiveInfinity == [class |-> "Infinity"]

NegativeInfinity == [class |-> "-Infinity"]

\* dataset.examples.length < 10
MinimumExamples == 10

\* e.input.length > 2000
LongInputLength == 2000

\* e.output.length > 4000
LongOutputLength == 4000

\* e.output.length < 50
ShortOutputLength == 50

\* The strings validateDataset pushes differ by their template and by the
\* count put into it: a message is a template's name and a count.
Message(kind, count) == [kind |-> kind, count |-> count]

\* Mutant of isEmptyExample: only the input is looked at.
isEmptyInput(e) == trim(e.input) = <<>>

\* !e.input.trim() || !e.output.trim()
isEmptyExample(e) == trim(e.input) = <<>> \/ trim(e.output) = <<>>

\* e.input.length > 2000
isLongInput(e) == Len(e.input) > LongInputLength

\* e.output.length > 4000
isLongOutput(e) == Len(e.output) > LongOutputLength

\* Mutant of isShortOutput: an output of no characters is not counted.
isShortNonEmptyOutput(e) == Len(e.output) > 0 /\ Len(e.output) < ShortOutputLength

\* e.output.length < 50
isShortOutput(e) == Len(e.output) < ShortOutputLength

\* lengths.reduce((a, b) => a + b, 0)
RECURSIVE sumOf(_)
sumOf(lengths) ==
  IF lengths = <<>> THEN 0 ELSE Head(lengths) + sumOf(Tail(lengths))

\* Math.round(sum / lengths.length): 0 / 0 is NaN, and Math.round(NaN) is NaN
averageLength(lengths) ==
  IF Len(lengths) = 0 THEN NaN
  ELSE Number(roundedMean(sumOf(lengths), Len(lengths)))

\* Math.min(...lengths): Infinity when there is no argument
mathMin(lengths) ==
  IF Len(lengths) = 0 THEN PositiveInfinity
  ELSE Number(CHOOSE n \in Range(lengths) : \A m \in Range(lengths) : n <= m)

\* Math.max(...lengths): -Infinity when there is no argument
mathMax(lengths) ==
  IF Len(lengths) = 0 THEN NegativeInfinity
  ELSE Number(CHOOSE n \in Range(lengths) : \A m \in Range(lengths) : n >= m)

\* if (count > 0) list.push(message)
pushIf(list, condition, message) ==
  IF condition THEN Append(list, message) ELSE list

validateDataset(data) ==
  LET examples      == data.examples
      emptyExamples == SelectSeq(examples, isEmptyExample)
      inputLengths  == [i \in 1..Len(examples) |-> Len(examples[i].input)]
      outputLengths == [i \in 1..Len(examples) |-> Len(examples[i].output)]
      longInputs    == SelectSeq(examples, isLongInput)
      longOutputs   == SelectSeq(examples, isLongOutput)
      shortOutputs  == SelectSeq(examples, isShortOutput)
      errors   == pushIf(<<>>, Len(emptyExamples) > 0,
                         Message("empty input or output", Len(emptyExamples)))
      warnings ==
        pushIf(
          pushIf(
            pushIf(
              pushIf(<<>>, Len(examples) < MinimumExamples,
                     Message("only N examples", Len(examples))),
              Len(longInputs) > 0,
              Message("very long inputs", Len(longInputs))),
            Len(longOutputs) > 0,
            Message("very long outputs", Len(longOutputs))),
          Len(shortOutputs) > 0,
          Message("very short outputs", Len(shortOutputs)))
  IN  [valid    |-> Len(errors) = 0,
       errors   |-> errors,
       warnings |-> warnings,
       stats    |->
         [avgInputLength  |-> averageLength(inputLengths),
          avgOutputLength |-> averageLength(outputLengths),
          minInputLength  |-> mathMin(inputLengths),
          maxInputLength  |-> mathMax(inputLengths),
          minOutputLength |-> mathMin(outputLengths),
          maxOutputLength |-> mathMax(outputLengths)]]

(***************************************************************************)
(* Specification SpecReport: validateDataset on a dataset, and again on    *)
(* the dataset with one more example                                       *)
(***************************************************************************)

\* The most examples of a dataset that are not copies of GoodExample
MaxOtherExamples == 2

\* A string of n characters c
Repeated(c, n) == [i \in 1..n |-> c]

Example(input, output) == [input |-> input, output |-> output]

\* The prompt of an example on 'fitness'
FitnessPrompt == promptFor(Fitness)

\* An example that draws no warning and no error: an output of 50 characters
GoodExample == Example(FitnessPrompt, Repeated("b", ShortOutputLength))

OtherExamples ==
  { Example(FitnessPrompt, Repeated("b", ShortOutputLength - 1)),
    Example(Repeated("a", LongInputLength + 1), Repeated("b", LongOutputLength + 1)),
    Example(Repeated("a", LongInputLength), Repeated("b", LongOutputLength)),
    Example(FitnessPrompt, <<>>),
    Example(FitnessPrompt, <<" ", Tab>>),
    Example(<<>>, Repeated("b", ShortOutputLength)),
    Example(<<" ", Newline>>, Repeated("b", ShortOutputLength - 1)) }

\* The examples a caller appends to a dataset it has validated
AppendedExamples ==
  { GoodExample,
    Example(FitnessPrompt, <<>>),
    Example(Repeated("a", LongInputLength + 1), <<>>) }

\* How many copies of GoodExample a dataset starts with: none, or so many
\* that the dataset is just below, at or above the recommended minimum.
GoodExampleCounts ==
  {0} \cup ((MinimumExamples - MaxOtherExamples - 1)..MinimumExamples)

ValidatedDatasets ==
  { [examples |-> [i \in 1..n |-> GoodExample] \o others] :
      n \in GoodExampleCounts,
      others \in UNION { [1..k -> OtherExamples] : k \in 0..MaxOtherExamples } }

NoReport == <<>>

InitReport ==
  /\ pc = "ready"
  /\ dataset \in ValidatedDatasets
  /\ report = NoReport
  /\ previousReport = NoReport
  /\ jsonl = Unused
  /\ ServiceUnused
  /\ transcriptionResults = Unused /\ syntheticScripts = Unused
  /\ options = Unused
  /\ content = Unused /\ topic = Unused
  /\ transcription = Unused /\ marketingSegments = Unused
  /\ wordAssignments = Unused /\ validation = Unused

ValidateDataset ==
  /\ pc \in {"ready", "appended"}
  /\ report' = validateDataset(dataset)
  /\ previousReport' = report
  /\ pc' = IF pc = "ready" THEN "validated" ELSE "revalidated"
  /\ UNCHANGED <<serviceVars, dataset, jsonl, transcriptionResults, syntheticScripts, options,
                 topicVars, validatorVars>>

\* The caller builds the dataset with one more example.
AppendExample ==
  /\ pc = "validated"
  /\ \E e \in AppendedExamples :
       dataset' = [dataset EXCEPT !.examples = Append(@, e)]
  /\ pc' = "appended"
  /\ UNCHANGED <<serviceVars, report, previousReport, jsonl, transcriptionResults,
                 syntheticScripts, options, topicVars, validatorVars>>

NextReport == ValidateDataset \/ AppendExample

SpecReport == InitReport /\ [][NextReport]_vars

(***************************************************************************)
(* Claims about validateDataset                                            *)
(***************************************************************************)

Validated == pc \in {"validated", "revalidated"}

LastExample == dataset.examples[Len(dataset.examples)]

\* The dataset has been validated, found valid, given one more example with
\* an empty output, and validated again.
EmptyOutputAppended ==
  /\ pc = "revalidated"
  /\ previousReport.valid
  /\ LastExample.output = <<>>

WarningsOfKind(r, kind) ==
  SelectSeq(r.warnings, LAMBDA w : w.kind = kind)

\* Every warning of the report before is a warning of the report after.
WarningsKept ==
  \A i \in 1..Len(previousReport.warnings) :
    \E j \in 1..Len(report.warnings) :
      report.warnings[j] = previousReport.warnings[i]

\* C15 as stated: appending one example with an empty output to a dataset
\* that validateDataset found valid gives valid = false, one more error, and
\* every warning of the report before still there, unaltered.
C15_WarningsUnaltered ==
  EmptyOutputAppended =>
    /\ ~report.valid
    /\ Len(report.errors) = Len(previousReport.errors) + 1
    /\ WarningsKept

\* C15, amended: valid = false and one more error; the warnings on long
\* inputs and long outputs are unaltered when the appended input is not a
\* long one; the warning on the size names the new number of examples, or is
\* gone when there were 9; the warning on short outputs counts one more.
C15_WarningsRecounted ==
  EmptyOutputAppended =>
    LET before == Len(dataset.examples) - 1
        shortBefore == WarningsOfKind(previousReport, "very short outputs")
        shortAfter  == WarningsOfKind(report, "very short outputs")
    IN  /\ ~report.valid
        /\ previousReport.errors = <<>>
        /\ Len(report.errors) = 1
        /\ WarningsOfKind(report, "very long outputs")
             = WarningsOfKind(previousReport, "very long outputs")
        /\ Len(LastExample.input) <= LongInputLength =>
             WarningsOfKind(report, "very long inputs")
               = WarningsOfKind(previousReport, "very long inputs")
        /\ WarningsOfKind(previousReport, "only N examples")
             = IF before < MinimumExamples
               THEN <<Message("only N examples", before)>> ELSE <<>>
        /\ WarningsOfKind(report, "only N examples")
             = IF before + 1 < MinimumExamples
               THEN <<Message("only N examples", before + 1)>> ELSE <<>>
        /\ Len(shortAfter) = 1
        /\ shortAfter[1].count
             = IF shortBefore = <<>> THEN 1 ELSE shortBefore[1].count + 1

\* A valid dataset of 9 examples with all four warnings; with the tenth
\* example the warning on the size is gone and the one on short outputs
\* counts 2.
C15_Witness ==
  /\ EmptyOutputAppended
  /\ Len(dataset.examples) = MinimumExamples
  /\ Len(previousReport.warnings) = 4
  /\ Len(report.warnings) = 3
  /\ WarningsOfKind(report, "very short outputs")
       = <<Message("very short outputs", 2)>>

\* An example has an empty or whitespace-only input or output.
HasEmptyField(e) ==
  \/ \A i \in 1..Len(e.input) : e.input[i] \in WhiteSpace
  \/ \A i \in 1..Len(e.output) : e.output[i] \in WhiteSpace

EmptyFieldCount ==
  Cardinality({i \in 1..Len(dataset.examples) : HasEmptyField(dataset.examples[i])})

\* C16: valid is false exactly when some example has an empty or
\* whitespace-only input or output, and then errors holds one entry for all
\* of them; whatever the warnings, they do not make valid false.
C16_ValidUnlessEmptyField ==
  Validated =>
    /\ report.valid = (EmptyFieldCount = 0)
    /\ report.valid = (report.errors = <<>>)
    /\ EmptyFieldCount > 0 =>
         report.errors = <<Message("empty input or output", EmptyFieldCount)>>

\* A dataset with the four kinds of warning that is valid, ...
C16_Witness ==
  /\ pc = "validated"
  /\ report.valid
  /\ {report.warnings[i].kind : i \in 1..Len(report.warnings)}
       = {"only N examples", "very long inputs", "very long outputs",
          "very short outputs"}

\* ... and a dataset with no warning whose two empty outputs make one error.
C16_WitnessInvalid ==
  /\ pc = "validated"
  /\ ~report.valid
  /\ report.warnings = <<Message("very short outputs", 2)>>
  /\ report.errors = <<Message("empty input or output", 2)>>

IsInteger(number) == number.class = "finite"

\* The integer nearest to the mean of length(e) over the examples.
RoundedMeanOf(length(_)) ==
  LET examples == dataset.examples
      total == sumOf([i \in 1..Len(examples) |-> length(examples[i])])
  IN  NearestInteger(total, Len(examples))

\* C17: for every dataset, the empty one too, the six stats are integers,
\* the averages are the rounded means, and min <= avg <= max for the inputs
\* and for the outputs.
C17_StatsAreIntegers ==
  Validated =>
    LET stats == report.stats
    IN  /\ \A name \in DOMAIN stats : IsInteger(stats[name])
        /\ stats.avgInputLength.value = RoundedMeanOf(LAMBDA e : Len(e.input))
        /\ stats.avgOutputLength.value = RoundedMeanOf(LAMBDA e : Len(e.output))
        /\ stats.minInputLength.value <= stats.avgInputLength.value
        /\ stats.avgInputLength.value <= stats.maxInputLength.value
        /\ stats.minOutputLength.value <= stats.avgOutputLength.value
        /\ stats.avgOutputLength.value <= stats.maxOutputLength.value

\* What holds of the datasets that have an example.
C17_StatsOfNonEmptyDatasets ==
  (Validated /\ Len(dataset.examples) > 0) => C17_StatsAreIntegers

\* The report on a dataset of no examples.
C17_EmptyDatasetReport ==
  (Validated /\ Len(dataset.examples) = 0) =>
    /\ report.valid
    /\ report.stats.avgInputLength = NaN
    /\ report.stats.minInputLength = PositiveInfinity
    /\ report.stats.maxInputLength = NegativeInfinity

(***************************************************************************)
(* parseMarketingResponse (lib/transcription/test-utils.ts)                *)
(*                                                                         *)
(* The response text is described by what the function's regular           *)
(* expressions and JSON.parse find in it; a property of the description    *)
(* is there exactly when the expression matches:                           *)
(*   jsonString            what extraction methods 1 to 3 find: how        *)
(*                         JSON.parse ends on it (parse, value) and, where *)
(*                         it throws, what the core expression finds       *)
(*                         (core: parse, value)                            *)
(*   transcriptionField    match[1] of the first of transcriptionPatterns  *)
(*                         that matches                                    *)
(*   transcriptionSection  match[1] of transcriptionSectionMatch           *)
(*   labelled.X            match[1] || match[2] || '' of the manual        *)
(*                         expression for segment X                        *)
(*   quoted.X              match[1] of the expression for segment X in     *)
(*                         reconstructTranscriptionFromSegments            *)
(***************************************************************************)

SegmentNames == <<"Hook", "Bridge", "GoldenNugget", "WTA">>

\* 'Transcription extraction failed - unable to parse response'
ExtractionFailed == <<"T", "r", "a", "n", "s", "c", "r", "i", "p", "t", "i", "o", "n", " ", "e", "x", "t", "r", "a", "c", "t", "i", "o", "n", " ", "f", "a", "i", "l", "e", "d", " ", "-", " ", "u", "n", "a", "b", "l", "e", " ", "t", "o", " ", "p", "a", "r", "s", "e", " ", "r", "e", "s", "p", "o", "n", "s", "e">>

\* 'Parsing failed - unable to extract transcription'
ParsingFailed == <<"P", "a", "r", "s", "i", "n", "g", " ", "f", "a", "i", "l", "e", "d", " ", "-", " ", "u", "n", "a", "b", "l", "e", " ", "t", "o", " ", "e", "x", "t", "r", "a", "c", "t", " ", "t", "r", "a", "n", "s", "c", "r", "i", "p", "t", "i", "o", "n">>

\* 'Parsing Error'
ParsingError == <<"P", "a", "r", "s", "i", "n", "g", " ", "E", "r", "r", "o", "r">>

\* The truth value JavaScript gives a string.
truthyString(object, field) == field \in DOMAIN object /\ object[field] # <<>>

\* parsed.transcription && parsed.marketingSegments
hasRequiredFields(object) ==
  truthyString(object, "transcription") /\ "marketingSegments" \in DOMAIN object

\* parsed.wordAssignments && Array.isArray(parsed.wordAssignments)
hasAssignmentArray(object) ==
  "wordAssignments" \in DOMAIN object /\ "array" \in DOMAIN object.wordAssignments

\* Mutant of directResult: the assignments are returned only when
\* validateWordAssignments accepts them.
directResultWhenValid(object) ==
  [transcription |-> object.transcription,
   marketingSegments |-> object.marketingSegments]
    @@ IF /\ hasAssignmentArray(object)
          /\ validateWordAssignments(object.transcription,
                                     object.marketingSegments,
                                     object.wordAssignments.array).valid
       THEN [wordAssignments |->
               assignmentsAfterValidation(object.wordAssignments.array)]
       ELSE <<>>

\* The result of the branch for a complete JSON object. result.wordAssignments
\* is the array validateWordAssignments has been called on, whose verdict is
\* only logged.
directResult(object) ==
  [transcription |-> object.transcription,
   marketingSegments |-> object.marketingSegments]
    @@ IF hasAssignmentArray(object)
       THEN [wordAssignments |->
               assignmentsAfterValidation(object.wordAssignments.array)]
       ELSE <<>>

\* The result of the branch for the core object: no word assignments.
coreResult(object) ==
  [transcription |-> object.transcription,
   marketingSegments |-> object.marketingSegments]

\* hookMatch ? hookMatch[1] : '', and so on for the four segments
quotedSegment(response, name) ==
  IF name \in DOMAIN response.quoted THEN response.quoted[name] ELSE <<>>

reconstructTranscriptionFromSegments(response) ==
  LET found    == [i \in 1..Len(SegmentNames) |->
                     quotedSegment(response, SegmentNames[i])]
      segments == SelectSeq(found, LAMBDA segment : Len(trim(segment)) > 0)
  IN  IF Len(segments) > 0
      THEN trim(join(segments, Space))
      ELSE ExtractionFailed

\* Mutant of manualSegment: a segment that is not found gets 'Parsing Error'.
manualSegmentOrError(response, name) ==
  IF name \in DOMAIN response.labelled
  THEN trim(response.labelled[name])
  ELSE ParsingError

\* hookMatch ? (hookMatch[1] || hookMatch[2] || '').trim() : 'Not Present'
manualSegment(response, name) ==
  IF name \in DOMAIN response.labelled
  THEN trim(response.labelled[name])
  ELSE NotPresent

\* The manual extraction, from transcriptionPatterns to its return.
manualResult(response) ==
  LET fromPatterns ==
        IF "transcriptionField" \in DOMAIN response
        THEN trim(response.transcriptionField)
        ELSE <<>>
      text ==
        IF fromPatterns # <<>> THEN fromPatterns
        ELSE IF "transcriptionSection" \in DOMAIN response
             THEN trim(response.transcriptionSection)
             ELSE reconstructTranscriptionFromSegments(response)
  IN  [transcription |-> text,
       marketingSegments |->
         Segments(manualSegment(response, "Hook"),
                  manualSegment(response, "Bridge"),
                  manualSegment(response, "GoldenNugget"),
                  manualSegment(response, "WTA"))]

\* Mutant of parseMarketingResponse: when JSON.parse throws, the core object
\* is not looked for.
parseMarketingResponseWithoutCore(response) ==
  IF "jsonString" \notin DOMAIN response THEN manualResult(response)
  ELSE LET json == response.jsonString
       IN  IF json.parse = "object" /\ hasRequiredFields(json.value)
           THEN directResult(json.value)
           ELSE manualResult(response)

\* The try block. Its catch block, which gives 'Parsing Error' for the four
\* segments, is entered when a statement of the try block throws: JSON.parse
\* and validateWordAssignments are called inside the inner try blocks, and
\* match, replace, indexOf, substring and trim do not throw on a string.
parseMarketingResponse(response) ==
  IF "jsonString" \notin DOMAIN response THEN manualResult(response)
  ELSE LET json == response.jsonString
       IN  IF json.parse = "object"
           THEN IF hasRequiredFields(json.value)
                THEN directResult(json.value)
                ELSE manualResult(response)
           ELSE IF /\ "core" \in DOMAIN json
                   /\ json.core.parse = "object"
                   /\ hasRequiredFields(json.core.value)
                THEN coreResult(json.core.value)
                ELSE manualResult(response)

(***************************************************************************)
(* Specification SpecParser: one call of parseMarketingResponse            *)
(***************************************************************************)

\* "Gym plan Health Lift Go"
GymTranscript == <<"G", "y", "m", " ", "p", "l", "a", "n", " ", "H", "e", "a", "l", "t", "h", " ", "L", "i", "f", "t", " ", "G", "o">>

\* Two word assignments, the second before the first.
TwoAssignments ==
  << [word |-> <<"b">>, category |-> "Bridge", position |-> 2],
     [word |-> <<"a">>, category |-> "Hook", position |-> 1] >>

\* The values JSON.parse may give: complete with an array of assignments,
\* with an empty array, with a string for the assignments, without
\* assignments, with an empty transcription, without the segments.
ParsedObjects ==
  { [transcription |-> GymTranscript, marketingSegments |-> GymSegments,
     wordAssignments |-> [array |-> TwoAssignments]],
    [transcription |-> GymTranscript, marketingSegments |-> GymSegments,
     wordAssignments |-> [array |-> <<>>]],
    [transcription |-> GymTranscript, marketingSegments |-> GymSegments,
     wordAssignments |-> [string |-> <<"n", "o", "n", "e">>]],
    [transcription |-> GymTranscript, marketingSegments |-> GymSegments],
    [transcription |-> <<>>, marketingSegments |-> GymSegments],
    [transcription |-> GymTranscript] }

\* The core expression asks for a quoted transcription and for the segments.
CoreObjects ==
  { [transcription |-> GymTranscript, marketingSegments |-> GymSegments],
    [transcription |-> <<>>, marketingSegments |-> GymSegments] }

Throws == [parse |-> "throws"]

Parses(object) == [parse |-> "object", value |-> object]

JsonStrings ==
  { Parses(object) : object \in ParsedObjects }
    \cup { Throws, Throws @@ [core |-> Throws] }
    \cup { Throws @@ [core |-> Parses(object)] : object \in CoreObjects }

\* What the expressions for the transcription find: nothing; a blank field;
\* a field; a blank field in front of a section; a field and a section.
TranscriptionMatches ==
  { <<>>,
    [transcriptionField |-> <<" ", " ">>],
    [transcriptionField |-> <<" ", "H", "i", " ">>],
    [transcriptionField |-> <<" ">>,
     transcriptionSection |-> <<"H", "i", " ", "a", "l", "l", " ">>],
    [transcriptionField |-> <<"H", "i">>,
     transcriptionSection |-> <<"H", "i", " ", "a", "l", "l">>] }

\* The segments found: none, the Hook, the Hook and the WTA around a blank
\* Bridge, all four.
SegmentMatches ==
  { <<>>,
    [Hook |-> <<" ", "G", "y", "m", " ">>],
    [Hook |-> <<"G", "y", "m">>, Bridge |-> <<" ">>, WTA |-> <<"G", "o">>],
    GymSegments }

Responses ==
  { [quoted |-> quoted, labelled |-> labelled] @@ matches @@ json :
      quoted \in SegmentMatches,
      labelled \in SegmentMatches,
      matches \in TranscriptionMatches,
      json \in { <<>> } \cup { [jsonString |-> j] : j \in JsonStrings } }

NotParsed == <<>>

InitParser ==
  /\ pc = "ready"
  /\ responseText \in Responses
  /\ parsed = NotParsed
  /\ BatchUnused /\ PipelineUnused /\ ClientUnused
  /\ ExportUnused
  /\ transcriptionResults = Unused /\ syntheticScripts = Unused
  /\ options = Unused /\ dataset = Unused
  /\ content = Unused /\ topic = Unused
  /\ transcription = Unused /\ marketingSegments = Unused
  /\ wordAssignments = Unused /\ validation = Unused

ParseMarketingResponse ==
  /\ pc = "ready"
  /\ parsed' = parseMarketingResponse(responseText)
  /\ pc' = "done"
  /\ UNCHANGED <<responseText, batchVars, pipelineVars, exportVars, datasetVars,
                 topicVars, validatorVars, clientVars>>

NextParser == ParseMarketingResponse

SpecParser == InitParser /\ [][NextParser]_vars

(***************************************************************************)
(* Claims about parseMarketingResponse                                     *)
(***************************************************************************)

\* Nothing can be recovered from the response: no JSON object, no
\* transcription field, no Hook, Bridge, Golden Nugget or WTA fragment.
NothingRecoverable ==
  /\ "jsonString" \notin DOMAIN responseText
  /\ "transcriptionField" \notin DOMAIN responseText
  /\ "transcriptionSection" \notin DOMAIN responseText
  /\ responseText.quoted = <<>>
  /\ responseText.labelled = <<>>

AllSegments(value) == Segments(value, value, value, value)

DownloadFailed == "Failed to download video"

\* 'Transcription failed: ...', the message of a GeminiTranscriptionError
TranscriptionFailed == "Transcription failed"

\* 'Job failed before processing'
JobFailed == "Job failed before processing"

\* options.extractMarketingSegments, undefined when the option is not given
extractMarketingSegments(opts) == optionOr(opts, "extractMarketingSegments", FALSE)

\* options.fastMode
fastMode(opts) == optionOr(opts, "fastMode", FALSE)

\* VideoDownloader.downloadVideos: the videos in order, each one pushed to
\* successful or to failed.
downloadVideos(list, outcome) ==
  [successful |-> SelectSeq(list, LAMBDA video : outcome[video.id].download),
   failed |->
     LET failures == SelectSeq(list, LAMBDA video : ~outcome[video.id].download)
     IN  [i \in 1..Len(failures) |->
            [metadata |-> failures[i], error |-> DownloadFailed]]]

\* The loop of GeminiClient.transcribeVideos: one request after the other.
transcribeVideosSequential(downloaded, outcome) ==
  LET done    == SelectSeq(downloaded, LAMBDA video : outcome[video.id].transcription)
      notDone == SelectSeq(downloaded, LAMBDA video : ~outcome[video.id].transcription)
  IN  [successful |->
         [i \in 1..Len(done) |->
            [video |-> done[i], response |-> [text |-> outcome[done[i].id].text]]],
       failed |->
         [i \in 1..Len(notDone) |->
            [video |-> notDone[i], error |-> TranscriptionFailed]]]

\* GeminiClient.transcribeVideosParallel: Promise.all over one promise per
\* video, then the two filters over the results in the order of the videos.
transcribeVideosParallel(downloaded, outcome) ==
  LET results ==
        [i \in 1..Len(downloaded) |->
           IF outcome[downloaded[i].id].transcription
           THEN [success |-> TRUE, video |-> downloaded[i],
                 response |-> [text |-> outcome[downloaded[i].id].text]]
           ELSE [success |-> FALSE, video |-> downloaded[i],
                 error |-> TranscriptionFailed]]
      succeeded == SelectSeq(results, LAMBDA r : r.success)
      others    == SelectSeq(results, LAMBDA r : ~r.success)
  IN  [successful |->
         [i \in 1..Len(succeeded) |->
            [video |-> succeeded[i].video, response |-> succeeded[i].response]],
       failed |->
         [i \in 1..Len(others) |->
            [video |-> others[i].video, error |-> others[i].error]]]

\* videos.length <= 5
ParallelBatchSize == 5

\* GeminiClient.transcribeVideos
transcribeVideos(downloaded, opts, outcome) ==
  IF fastMode(opts) /\ Len(downloaded) <= ParallelBatchSize
  THEN transcribeVideosParallel(downloaded, outcome)
  ELSE transcribeVideosSequential(downloaded, outcome)

NoError == ""

\* Mutant of withMarketingAnalysis: only the transcription of the parsed
\* response is stored.
withTranscriptionOnly(result, response) ==
  [result EXCEPT !.transcription = response.transcription]

\* The branch of createTranscriptionResult that stores the parsed response
withMarketingAnalysis(result, response) ==
  [result EXCEPT !.transcription = response.transcription]
    @@ [marketingSegments |-> response.marketingSegments]
    @@ IF "wordAssignments" \in DOMAIN response
       THEN [wordAssignments |-> response.wordAssignments]
       ELSE <<>>

\* createTranscriptionResult; error is NoError when the argument is not
\* given, and a text that the model returned is never the empty string.
createTranscriptionResult(metadata, text, success, error, opts) ==
  LET result == [videoId |-> metadata.id, platform |-> metadata.platform,
                 transcription |-> <<>>, processingTime |-> 0,
                 success |-> success]
  IN  IF error # NoError
      THEN result @@ [error |-> error]
      ELSE IF success /\ extractMarketingSegments(opts)
           THEN withMarketingAnalysis(result, parseMarketingResponse(text))
           ELSE [result EXCEPT !.transcription = text]

\* createFailedJobResult
createFailedJobResult(list, errors) ==
  [success |-> FALSE,
   results |-> [i \in 1..Len(list) |->
                  createTranscriptionResult(list[i], <<>>, FALSE, JobFailed, <<>>)],
   totalProcessed |-> Len(list),
   totalFailed |-> Len(list),
   errors |-> errors]

\* Mutant of downloadFailureResults: the videos that could not be downloaded
\* get no result.
noDownloadFailureResults(failed, opts) == <<>>

\* The results of the loop over downloadResult.failed
downloadFailureResults(failed, opts) ==
  [i \in 1..Len(failed) |->
     createTranscriptionResult(failed[i].metadata, <<>>, FALSE, failed[i].error, opts)]

\* The counts and the return statement of processTranscriptionRequest
completedJobResult(results, errors) ==
  LET successfulCount == Len(SelectSeq(results, LAMBDA r : r.success))
  IN  [success |-> successfulCount > 0,
       results |-> results,
       totalProcessed |-> Len(results),
       totalFailed |-> Len(results) - successfulCount,
       errors |-> errors]

\* The try block of processTranscriptionRequest. Its catch block is entered
\* when downloadVideos or transcribeVideos throws, which neither does for a
\* failure of a video: both catch it in their loops.
processTranscriptionRequest(list, opts, outcome) ==
  LET downloadResult == downloadVideos(list, outcome)
  IN  IF Len(downloadResult.successful) = 0
      THEN createFailedJobResult(
             list,
             [i \in 1..Len(downloadResult.failed) |->
                [videoId |-> downloadResult.failed[i].metadata.id,
                 error |-> downloadResult.failed[i].error]])
      ELSE
        LET transcriptionResult ==
              transcribeVideos(downloadResult.successful, opts, outcome)
            successes ==
              [i \in 1..Len(transcriptionResult.successful) |->
                 createTranscriptionResult(
                   transcriptionResult.successful[i].video,
                   transcriptionResult.successful[i].response.text,
                   TRUE, NoError, opts)]
            failures ==
              [i \in 1..Len(transcriptionResult.failed) |->
                 createTranscriptionResult(
                   transcriptionResult.failed[i].video, <<>>, FALSE,
                   transcriptionResult.failed[i].error, opts)]
            errors ==
              [i \in 1..Len(transcriptionResult.failed) |->
                 [videoId |-> transcriptionResult.failed[i].video.id,
                  error |-> transcriptionResult.failed[i].error]]
              \o [i \in 1..Len(downloadResult.failed) |->
                    [videoId |-> downloadResult.failed[i].metadata.id,
                     error |-> downloadResult.failed[i].error]]
        IN  completedJobResult(
              successes \o failures
                \o downloadFailureResults(downloadResult.failed, opts),
              errors)

\* transcribeVideosFast: the options of the caller with the fast settings
transcribeVideosFast(list, opts, outcome) ==
  processTranscriptionRequest(
    list,
    [extractMarketingSegments |-> FALSE, fastMode |-> TRUE,
     includeVisualDescriptions |-> FALSE] @@ opts,
    outcome)

(***************************************************************************)
(* Specification SpecBatch: one call of processTranscriptionRequest        *)
(***************************************************************************)

MaxVideos == 3

\* The videos of a request: v1, v2, ... of either platform.
VideoLists ==
  UNION { { [i \in 1..n |-> [id |-> videoIdOf(i), platform |-> platform[i]]] :
              platform \in { [i \in 1..n |-> "tiktok"],
                             [i \in 1..n |->
                                IF i % 2 = 1 THEN "instagram" ELSE "tiktok"] } } :
          n \in 0..MaxVideos }

\* A text with a complete JSON object
CompleteResponse ==
  [quoted |-> GymSegments, labelled |-> GymSegments,
   transcriptionField |-> GymTranscript,
   jsonString |->
     Parses([transcription |-> GymTranscript, marketingSegments |-> GymSegments,
             wordAssignments |-> [array |-> TwoAssignments]])]

\* A text in which nothing is found
UnparsableResponse == [quoted |-> <<>>, labelled |-> <<>>]

\* What may happen to a video
VideoOutcomes ==
  { [download |-> FALSE, transcription |-> FALSE, text |-> <<>>],
    [download |-> TRUE, transcription |-> FALSE, text |-> <<>>],
    [download |-> TRUE, transcription |-> TRUE, text |-> CompleteResponse],
    [download |-> TRUE, transcription |-> TRUE, text |-> UnparsableResponse] }

VideoIds(list) == {list[i].id : i \in 1..Len(list)}

\* The options of a request: none, marketing analysis, fast mode
RequestOptionChoices ==
  { <<>>,
    [extractMarketingSegments |-> TRUE, fastMode |-> FALSE],
    [extractMarketingSegments |-> FALSE, fastMode |-> TRUE] }

NoJobResult == <<>>

InitBatch ==
  /\ pc = "ready"
  /\ videos \in VideoLists
  /\ requestOptions \in RequestOptionChoices
  /\ outcomes \in [VideoIds(videos) -> VideoOutcomes]
  /\ jobResult = NoJobResult
  /\ ParserUnused /\ PipelineUnused /\ ClientUnused
  /\ ExportUnused
  /\ transcriptionResults = Unused /\ syntheticScripts = Unused
  /\ options = Unused /\ dataset = Unused
  /\ content = Unused /\ topic = Unused
  /\ transcription = Unused /\ marketingSegments = Unused
  /\ wordAssignments = Unused /\ validation = Unused

ProcessTranscriptionRequest ==
  /\ pc = "ready"
  /\ jobResult' = processTranscriptionRequest(videos, requestOptions, outcomes)
  /\ pc' = "done"
  /\ UNCHANGED <<videos, requestOptions, outcomes, parserVars, pipelineVars,
                 exportVars, datasetVars, topicVars, validatorVars, clientVars>>

NextBatch == ProcessTranscriptionRequest

SpecBatch == InitBatch /\ [][NextBatch]_vars

(***************************************************************************)
(* Claims about processTranscriptionRequest                                *)
(***************************************************************************)

\* The positions of the results that say the video failed.
FailedResults ==
  {i \in 1..Len(jobResult.results) : ~jobResult.results[i].success}

Transcribed(id) == outcomes[id].download /\ outcomes[id].transcription

C20_WitnessNoDownload ==
  /\ pc = "done"
  /\ Len(videos) = 2
  /\ \A i \in 1..2 : ~outcomes[videos[i].id].download
  /\ ~jobResult.success
  /\ jobResult.results[1].error = JobFailed
  /\ Len(jobResult.errors) = 2

(***************************************************************************)
(* POST /api/transcribe-videos (the route that the pipeline calls)         *)
(***************************************************************************)

\* request.videos.length > 50
MaxVideosPerRequest == 50

\* TranscriptionService.validateRequest, without the checks of the url
validateRequest(request) ==
  /\ Len(request.videos) # 0
  /\ Len(request.videos) <= MaxVideosPerRequest
  /\ \A i \in 1..Len(request.videos) :
       /\ request.videos[i].id # <<>>
       /\ request.videos[i].platform \in {"tiktok", "instagram"}

\* The answer of the route to a request that was processed
transcriptionResponse(result, driveSaved) ==
  LET anySuccess == \E i \in 1..Len(result.results) : result.results[i].success
  IN  [ok |-> TRUE,
       body |->
         [success |-> result.success,
          data |-> [transcriptionResults |-> result.results,
                    googleDrive |-> result.success /\ anySuccess /\ driveSaved]]]

\* The answer of the route: ok is the status being 2xx, body the JSON.
\* driveSaved says whether saveTranscriptionResults returns a folder.
transcribeVideosRoute(request, env, outcome, driveSaved) ==
  IF ~validateRequest(request)
  THEN [ok |-> FALSE, body |-> [success |-> FALSE, error |-> "Invalid request"]]
  ELSE IF ~env.GEMINI_API_KEY
  THEN [ok |-> FALSE,
        body |-> [success |-> FALSE, error |-> "Server configuration error"]]
  ELSE
    LET isFastMode == fastMode(request.options) = TRUE
    IN  transcriptionResponse(
          IF isFastMode
          THEN transcribeVideosFast(request.videos, request.options, outcome)
          ELSE processTranscriptionRequest(request.videos, request.options, outcome),
          driveSaved)

(***************************************************************************)
(* POST /api/automated-pipeline (app/api/automated-pipeline/route.ts)      *)
(*                                                                         *)
(* steps is the list of the PipelineProgressTracker (step and status of    *)
(* each entry), locals the variables of the handler, pc the fetch that the *)
(* handler awaits. An action is the code that runs when that fetch         *)
(* settles, up to the next fetch or to the response.                       *)
(***************************************************************************)

\* PipelineProgressTracker.addStep
addStep(list, step, status) == Append(list, [step |-> step, status |-> status])

\* PipelineProgressTracker.updateLastStep
updateLastStep(list, status) ==
  IF Len(list) > 0 THEN [list EXCEPT ![Len(list)].status = status] ELSE list

\* syntheticScriptCount = 10
DefaultSyntheticScriptCount == 10

\* The ten entries of syntheticTopics before the slice
SyntheticTopicCount == 10

\* syntheticTopics.length, after .slice(0, syntheticScriptCount)
topicCount(request) ==
  LET count == optionOr(request, "syntheticScriptCount", DefaultSyntheticScriptCount)
  IN  IF count < SyntheticTopicCount THEN count ELSE SyntheticTopicCount

generateSyntheticData(request) == optionOr(request, "generateSyntheticData", TRUE)

\* Step 6 begins
startDataExport(list) ==
  [steps |-> addStep(list, "data_export", "running"), pc |-> "data_export"]

\* Step 5 begins; with no topic the loop does not run
startSyntheticGeneration(list, request) ==
  IF topicCount(request) = 0
  THEN startDataExport(
         updateLastStep(addStep(list, "synthetic_generation", "running"),
                        "completed"))
  ELSE [steps |-> addStep(list, "synthetic_generation", "running"),
        pc |-> "synthetic_generation"]

\* The code after step 4
afterTemplates(list, templates, request) ==
  IF generateSyntheticData(request) /\ ~fastMode(request) /\ Len(templates) > 0
  THEN startSyntheticGeneration(list, request)
  ELSE startDataExport(list)

\* The code after step 3
afterDriveStorage(list, successful, request) ==
  IF ~fastMode(request) /\ Len(successful) > 0
  THEN [steps |-> addStep(list, "template_generation", "running"),
        pc |-> "template_generation"]
  ELSE afterTemplates(list, <<>>, request)

\* The catch block of POST, entered with the steps as the thrower left them
pipelineFailed(list) ==
  /\ steps' = addStep(list, "pipeline_failed", "failed")
  /\ pipelineResponse' = [success |-> FALSE, status |-> 500]
  /\ pc' = "responded"
  /\ UNCHANGED locals

\* The options that the pipeline sends to /api/transcribe-videos
transcriptionRequest(list, request) ==
  [videos |-> list,
   options |-> [extractMarketingSegments |-> ~fastMode(request),
                fastMode |-> fastMode(request),
                includeVisualDescriptions |-> FALSE]]

\* result.success && result.marketingSegments
successfulTranscriptions(results) ==
  SelectSeq(results, LAMBDA r : r.success /\ "marketingSegments" \in DOMAIN r)

(***************************************************************************)
(* Specification SpecPipeline: one run of the pipeline                     *)
(***************************************************************************)

MaxScripts == 2

PipelineRequests ==
  { [fastMode |-> TRUE],
    [syntheticScriptCount |-> MaxScripts],
    [fastMode |-> FALSE, generateSyntheticData |-> FALSE] }

GymTemplate ==
  [hook |-> GymSegments.Hook, bridge |-> GymSegments.Bridge,
   nugget |-> GymSegments.GoldenNugget, wta |-> GymSegments.WTA]

\* What /api/generate-templates may answer: the fetch rejects, a status
\* that is not ok, no template, a template, a template without a hook
TemplateAnswers ==
  { [thrown |-> TRUE],
    [thrown |-> FALSE, ok |-> FALSE],
    [thrown |-> FALSE, ok |-> TRUE, allTemplates |-> <<>>],
    [thrown |-> FALSE, ok |-> TRUE, allTemplates |-> <<GymTemplate>>],
    [thrown |-> FALSE, ok |-> TRUE,
     allTemplates |-> <<[bridge |-> GymSegments.Bridge]>>] }

NoLocals == <<>>

NoResponse == <<>>

InitPipeline ==
  /\ pc = "ready"
  /\ pipelineRequest \in PipelineRequests
  /\ environment \in [GEMINI_API_KEY : BOOLEAN]
  /\ videos \in VideoLists
  /\ outcomes \in [VideoIds(videos) -> VideoOutcomes]
  /\ locals = NoLocals
  /\ steps = <<>>
  /\ pipelineResponse = NoResponse
  /\ requestOptions = Unused /\ jobResult = Unused
  /\ ParserUnused /\ ExportUnused /\ ClientUnused
  /\ transcriptionResults = Unused /\ syntheticScripts = Unused
  /\ options = Unused /\ dataset = Unused
  /\ content = Unused /\ topic = Unused
  /\ transcription = Unused /\ marketingSegments = Unused
  /\ wordAssignments = Unused /\ validation = Unused

pipelineFrame ==
  <<pipelineRequest, environment, videos, outcomes, requestOptions, jobResult,
    parserVars, exportVars, datasetVars, topicVars, validatorVars, clientVars>>

\* The handler up to the fetch of /api/process-creator
StartPipeline ==
  /\ pc = "ready"
  /\ steps' = addStep(addStep(steps, "initialization", "completed"),
                      "video_extraction", "running")
  /\ pc' = "video_extraction"
  /\ UNCHANGED <<locals, pipelineResponse, pipelineFrame>>

\* /api/process-creator settles; on success videos are the extracted videos
\* that have a video_url.
VideoExtractionReturns ==
  /\ pc = "video_extraction"
  /\ \E answer \in {"rejects", "not ok", "no videos", "videos"} :
       CASE answer = "rejects" -> pipelineFailed(steps)
         [] answer \in {"not ok", "no videos"} ->
              pipelineFailed(updateLastStep(steps, "failed"))
         [] answer = "videos" ->
              /\ steps' = addStep(updateLastStep(steps, "completed"),
                                  "video_processing", "running")
              /\ pc' = "video_processing"
              /\ UNCHANGED <<locals, pipelineResponse>>
  /\ UNCHANGED pipelineFrame

\* The handler from the answer of /api/transcribe-videos to the next fetch
transcriptionReturned(response) ==
  IF ~response.ok
  THEN pipelineFailed(updateLastStep(steps, "failed"))
  ELSE IF \/ ~response.body.success
          \/ Len(response.body.data.transcriptionResults) = 0
  THEN pipelineFailed(updateLastStep(steps, "failed"))
  ELSE
    LET successful ==
          successfulTranscriptions(response.body.data.transcriptionResults)
        processed == updateLastStep(steps, "completed")
        stored ==
          IF response.body.data.googleDrive
          THEN addStep(processed, "drive_storage", "completed")
          ELSE processed
        next == afterDriveStorage(stored, successful, pipelineRequest)
    IN  IF Len(successful) = 0
        THEN pipelineFailed(updateLastStep(steps, "failed"))
        ELSE /\ steps' = next.steps
             /\ pc' = next.pc
             /\ locals' = [successfulTranscriptions |-> successful,
                           templates |-> <<>>,
                           syntheticScripts |-> <<>>,
                           topic |-> 1]
             /\ UNCHANGED pipelineResponse

\* /api/transcribe-videos settles
VideoProcessingReturns ==
  /\ pc = "video_processing"
  /\ \E rejects \in BOOLEAN, driveSaved \in BOOLEAN :
       IF rejects
       THEN pipelineFailed(steps)
       ELSE transcriptionReturned(
              transcribeVideosRoute(transcriptionRequest(videos, pipelineRequest),
                                    environment, outcomes, driveSaved))
  /\ UNCHANGED pipelineFrame

\* /api/generate-templates settles for step 4
TemplateGenerationReturns ==
  /\ pc = "template_generation"
  /\ \E answer \in TemplateAnswers :
       LET templates ==
             IF ~answer.thrown /\ answer.ok THEN answer.allTemplates ELSE <<>>
           described ==
             /\ ~answer.thrown /\ answer.ok
             /\ \A i \in 1..Len(templates) :
                  {"hook", "bridge", "nugget", "wta"} \subseteq DOMAIN templates[i]
           updated ==
             updateLastStep(steps, IF described THEN "completed" ELSE "failed")
           next == afterTemplates(updated, templates, pipelineRequest)
       IN  /\ locals' = [locals EXCEPT !.templates = templates]
           /\ steps' = next.steps
           /\ pc' = next.pc
  /\ UNCHANGED <<pipelineResponse, pipelineFrame>>

\* /api/generate-templates settles for a topic of step 5
SyntheticGenerationReturns ==
  /\ pc = "synthetic_generation"
  /\ \E generated \in BOOLEAN :
       LET scripts ==
             IF generated
             THEN Append(locals.syntheticScripts,
                         [topic |-> locals.topic, script |-> GymSegments])
             ELSE locals.syntheticScripts
           next == startDataExport(updateLastStep(steps, "completed"))
       IN  IF locals.topic < topicCount(pipelineRequest)
           THEN /\ locals' = [locals EXCEPT !.syntheticScripts = scripts,
                                            !.topic = @ + 1]
                /\ UNCHANGED <<steps, pc>>
           ELSE /\ locals' = [locals EXCEPT !.syntheticScripts = scripts]
                /\ steps' = next.steps
                /\ pc' = next.pc
  /\ UNCHANGED <<pipelineResponse, pipelineFrame>>

\* /api/export-training-data settles
DataExportReturns ==
  /\ pc = "data_export"
  /\ \E answer \in {"rejects", "not ok", "ok"} :
       CASE answer = "rejects" -> pipelineFailed(steps)
         [] answer = "not ok" -> pipelineFailed(updateLastStep(steps, "failed"))
         [] answer = "ok" ->
              /\ steps' = addStep(updateLastStep(steps, "completed"),
                                  "pipeline_complete", "completed")
              /\ pipelineResponse' = [success |-> TRUE, status |-> 200]
              /\ pc' = "responded"
              /\ UNCHANGED locals
  /\ UNCHANGED pipelineFrame

NextPipeline ==
  \/ StartPipeline
  \/ VideoExtractionReturns
  \/ VideoProcessingReturns
  \/ TemplateGenerationReturns
  \/ SyntheticGenerationReturns
  \/ DataExportReturns

SpecPipeline == InitPipeline /\ [][NextPipeline]_vars

(***************************************************************************)
(* Claims about the pipeline                                               *)
(***************************************************************************)

StatusOf(step) ==
  {steps[i].status : i \in {k \in 1..Len(steps) : steps[k].step = step}}

\* A finished run in fast mode in which the extraction succeeded, the
\* transcription route answered, and every video was downloaded and
\* transcribed.
FastRunAllTranscribed ==
  /\ pc = "responded"
  /\ fastMode(pipelineRequest)
  /\ environment.GEMINI_API_KEY
  /\ StatusOf("video_extraction") = {"completed"}
  /\ "running" \notin StatusOf("video_processing")
  /\ Len(videos) > 0
  /\ \A i \in 1..Len(videos) : Transcribed(videos[i].id)

\* C19: a run with fastMode = true in which the extraction succeeds and
\* every video is downloaded and transcribed reaches the data_export step,
\* and unless the export itself fails it ends with the pipeline_complete
\* step and a success response.
C19_FastModeCompletes ==
  FastRunAllTranscribed =>
    /\ StatusOf("data_export") # {}
    /\ StatusOf("data_export") = {"completed"} =>
         /\ steps[Len(steps)].step = "pipeline_complete"
         /\ pipelineResponse.success

\* What the handler does instead: the filter on marketingSegments leaves no
\* result, step video_processing is marked failed and the run ends with
\* pipeline_failed and status 500.
C19_FastModeFails ==
  FastRunAllTranscribed =>
    /\ StatusOf("video_processing") = {"failed"}
    /\ StatusOf("data_export") = {}
    /\ steps[Len(steps)].step = "pipeline_failed"
    /\ ~pipelineResponse.success /\ pipelineResponse.status = 500

\* Every fast run ends without success, whatever the services answer.
C19_NoFastRunSucceeds ==
  (pc = "responded" /\ fastMode(pipelineRequest)) => ~pipelineResponse.success

\* The same videos without fast mode reach pipeline_complete.
C19_StandardRunCompletes ==
  /\ pc = "responded"
  /\ ~fastMode(pipelineRequest)
  /\ Len(videos) > 0
  /\ \A i \in 1..Len(videos) : Transcribed(videos[i].id)
  /\ steps[Len(steps)].step = "pipeline_complete"
  /\ pipelineResponse.success

(***************************************************************************)
(* Claims about the scores of extractTopicFromContent                      *)
(***************************************************************************)

\* The tokens of the content, as the function splits them
ContentWords == splitWhitespace(toLowerCase(content))

Topics == 1..Len(topicKeywords)

\* The score that the loop computes for the topic at position t
ScoreOf(t) == topicScore(ContentWords, topicKeywords[t].keywords)

\* The number of tokens that contain at least one keyword of the topic
TokenCount(t) ==
  Cardinality({i \in 1..Len(ContentWords) :
                 \E k \in 1..Len(topicKeywords[t].keywords) :
                    includes(ContentWords[i], topicKeywords[t].keywords[k])})

\* The number of pairs of a token and a keyword of the topic that it contains
OccurrenceCount(t) ==
  Cardinality({pair \in (1..Len(ContentWords))
                          \X (1..Len(topicKeywords[t].keywords)) :
                 includes(ContentWords[pair[1]],
                          topicKeywords[t].keywords[pair[2]])})

\* The first topic (in the order of the table) among those whose score is
\* the highest, or the default when that score is 0
FirstBest(Score(_)) ==
  LET top == CHOOSE t \in Topics :
               \A u \in Topics :
                  /\ Score(u) <= Score(t)
                  /\ u < t => Score(u) < Score(t)
  IN  IF Score(top) = 0 THEN GeneralAdvice ELSE topicKeywords[top].topic

\* C21: the score of a topic is the number of tokens of the lowercased
\* content that contain at least one of its keywords (a token with two
\* keywords of the topic counts once).
C21_ScoreCountsTokens ==
  pc = "done" => \A t \in Topics : ScoreOf(t) = TokenCount(t)

\* What the reduce computes: every keyword that a token contains counts.
C21_ScoreCountsOccurrences ==
  pc = "done" => \A t \in Topics : ScoreOf(t) = OccurrenceCount(t)

\* The topic returned is the one that counting tokens would select.
C21_TopicByTokenCount ==
  pc = "done" => topic = FirstBest(TokenCount)

\* "worktime gym gym": counting tokens gives productivity 1 and fitness 2,
\* the function gives productivity 2 and fitness 2 and returns productivity.
C21_WorktimeGymGym ==
  /\ pc = "done"
  /\ content = <<"w", "o", "r", "k", "t", "i", "m", "e", " ",
                 "g", "y", "m", " ", "g", "y", "m">>
  /\ TokenCount(1) = 1 /\ TokenCount(2) = 2
  /\ ScoreOf(1) = 2 /\ ScoreOf(2) = 2
  /\ topic = Productivity

\* C22: for every content the function returns a topic: the first one in
\* the order of the table among the topics with the highest score, and
\* "general advice" exactly when every topic scores 0.
C22_FirstHighestScore ==
  pc = "done" =>
    /\ topic = FirstBest(ScoreOf)
    /\ (topic = GeneralAdvice) <=> (\A t \in Topics : ScoreOf(t) = 0)
    /\ \A t \in Topics :
         topic = topicKeywords[t].topic =>
           /\ ScoreOf(t) > 0
           /\ \A u \in Topics : ScoreOf(u) <= ScoreOf(t)
           /\ \A u \in 1..(t - 1) : ScoreOf(u) < ScoreOf(t)

\* Two topics share the highest score and the earlier one is returned.
C22_Witness ==
  /\ pc = "done"
  /\ \E t, u \in Topics :
       /\ t < u
       /\ ScoreOf(t) = ScoreOf(u) /\ ScoreOf(t) > 0
       /\ \A v \in Topics : ScoreOf(v) <= ScoreOf(t)
       /\ topic = topicKeywords[t].topic

\* No keyword occurs and the default is returned.
C22_WitnessDefault ==
  /\ pc = "done"
  /\ content # <<>>
  /\ \A t \in Topics : ScoreOf(t) = 0
  /\ topic = GeneralAdvice

(***************************************************************************)
(* Claims about the checks of validateWordAssignments                      *)
(***************************************************************************)

\* 1 when the condition holds, else 0
Count(condition) == IF condition THEN 1 ELSE 0

\* The words of the list in the order it has when the call returns
WordsDiffer ==
  Canonical(join([i \in 1..Len(wordAssignments) |-> wordAssignments[i].word],
                 Space))
    # Canonical(transcription)

HasDuplicatePosition ==
  Cardinality(PositionSet(wordAssignments)) # Len(wordAssignments)

HasMissingPosition ==
  ~((1..Len(wordAssignments)) \subseteq PositionSet(wordAssignments))

\* C23: for a non-empty list each of the four checks is evaluated whatever
\* the earlier ones found: errors has one entry for each failing check and
\* no other entry, and valid is true exactly when errors is empty.
C23_AllChecksRun ==
  (pc = "done" /\ Len(wordAssignments) > 0)
  => /\ Len(ErrorsOfKind("Word assignments don't match original transcript"))
          = Count(WordsDiffer)
     /\ Len(ErrorsOfKind(SegmentsMismatchError.kind)) = Count(SegmentsDiffer)
     /\ Len(ErrorsOfKind(DuplicatePositionsError.kind))
          = Count(HasDuplicatePosition)
     /\ Len(ErrorsOfKind("Missing word positions")) = Count(HasMissingPosition)
     /\ Len(validation.errors)
          = Count(WordsDiffer) + Count(SegmentsDiffer)
              + Count(HasDuplicatePosition) + Count(HasMissingPosition)
     /\ validation.valid <=> (validation.errors = <<>>)

\* All four checks fail in one call.
C23_Witness ==
  /\ pc = "done"
  /\ Len(wordAssignments) > 0
  /\ WordsDiffer /\ SegmentsDiffer
  /\ HasDuplicatePosition /\ HasMissingPosition
  /\ Len(validation.errors) = 4
  /\ ~validation.valid

\* C24: for the empty list the call returns valid = false with the one
\* error 'No word assignments provided' and no error of any other check,
\* whatever the transcript and the segments are.
C24_EmptyListReturnsEarly ==
  (pc = "done" /\ Len(wordAssignments) = 0)
  => /\ ~validation.valid
     /\ validation.errors = <<NoAssignmentsError>>

\* The empty list with segments that do not match the transcript
C24_Witness ==
  /\ pc = "done"
  /\ Len(wordAssignments) = 0
  /\ SegmentsDiffer
  /\ validation = [valid |-> FALSE, errors |-> <<NoAssignmentsError>>]

\* C28: for a non-empty list of length N, when neither the duplicate error
\* nor the missing-positions error is reported, the positions of the list
\* are exactly 1..N, each carried by one element.
C28_PositionalIntegrity ==
  (/\ pc = "done"
   /\ Len(wordAssignments) > 0
   /\ ErrorsOfKind(DuplicatePositionsError.kind) = <<>>
   /\ ErrorsOfKind("Missing word positions") = <<>>)
  => /\ PositionSet(wordAssignments) = 1..Len(wordAssignments)
     /\ \A k \in 1..Len(wordAssignments) :
          Cardinality({i \in 1..Len(wordAssignments) :
                         wordAssignments[i].position = k}) = 1

\* A list of full length with neither error, while another check fails
C28_Witness ==
  /\ pc = "done"
  /\ Len(wordAssignments) = MaxAssignments
  /\ ErrorsOfKind(DuplicatePositionsError.kind) = <<>>
  /\ ErrorsOfKind("Missing word positions") = <<>>
  /\ ~validation.valid
  /\ IsPartition(wordAssignments)

\* Positions 0 and N + 1 are reported: as missing positions of 1..N.
C28_OutsidePositionsReported ==
  (/\ pc = "done"
   /\ Len(wordAssignments) > 0
   /\ \E i \in 1..Len(wordAssignments) :
        wordAssignments[i].position \notin 1..Len(wordAssignments))
  => Len(ErrorsOfKind("Missing word positions")) = 1

(***************************************************************************)
(* Claims about the stages of parseMarketingResponse                       *)
(***************************************************************************)

\* An object with a non-empty transcription and with segments
Complete(object) ==
  /\ "transcription" \in DOMAIN object /\ object.transcription # <<>>
  /\ "marketingSegments" \in DOMAIN object

\* JSON.parse gives an object that is complete.
DirectStageSucceeds ==
  /\ "jsonString" \in DOMAIN responseText
  /\ responseText.jsonString.parse = "object"
  /\ Complete(responseText.jsonString.value)

\* JSON.parse throws and the core object is found, parsed and complete.
CoreStageSucceeds ==
  /\ "jsonString" \in DOMAIN responseText
  /\ responseText.jsonString.parse = "throws"
  /\ "core" \in DOMAIN responseText.jsonString
  /\ responseText.jsonString.core.parse = "object"
  /\ Complete(responseText.jsonString.core.value)

SameElements(list, other) ==
  /\ Len(list) = Len(other)
  /\ \A i \in 1..Len(list) :
       Cardinality({k \in 1..Len(list) : list[k] = list[i]})
         = Cardinality({k \in 1..Len(other) : other[k] = list[i]})

\* C25: a complete object from JSON.parse is returned as it is, with the
\* word assignments exactly when they are an array; when JSON.parse throws
\* and the core object is complete, its transcription and segments are
\* returned without word assignments; in every other case the result is the
\* manual extraction, without word assignments and with "Not Present" for
\* each segment that no expression matches.
C25_FallbackChain ==
  pc = "done" =>
    /\ DirectStageSucceeds =>
         LET object == responseText.jsonString.value
         IN  /\ parsed.transcription = object.transcription
             /\ parsed.marketingSegments = object.marketingSegments
             /\ ("wordAssignments" \in DOMAIN parsed)
                  <=> /\ "wordAssignments" \in DOMAIN object
                      /\ "array" \in DOMAIN object.wordAssignments
             /\ "wordAssignments" \in DOMAIN parsed =>
                  SameElements(parsed.wordAssignments,
                               object.wordAssignments.array)
    /\ CoreStageSucceeds =>
         parsed = [transcription |->
                     responseText.jsonString.core.value.transcription,
                   marketingSegments |->
                     responseText.jsonString.core.value.marketingSegments]
    /\ (~DirectStageSucceeds /\ ~CoreStageSucceeds) =>
         /\ DOMAIN parsed = {"transcription", "marketingSegments"}
         /\ \A i \in 1..Len(SegmentNames) :
              IF SegmentNames[i] \in DOMAIN responseText.labelled
              THEN parsed.marketingSegments[SegmentNames[i]]
                     = Canonical(responseText.labelled[SegmentNames[i]])
              ELSE parsed.marketingSegments[SegmentNames[i]] = NotPresent

\* JSON.parse throws, the core object is returned, and the manual
\* expressions would have found nothing.
C25_Witness ==
  /\ pc = "done"
  /\ CoreStageSucceeds
  /\ responseText.labelled = <<>>
  /\ "transcriptionField" \notin DOMAIN responseText
  /\ parsed.marketingSegments = GymSegments
  /\ parsed.transcription = GymTranscript

\* JSON.parse gives an object whose assignments are a string: they are left
\* out.
C25_WitnessNoArray ==
  /\ pc = "done"
  /\ DirectStageSucceeds
  /\ "wordAssignments" \in DOMAIN responseText.jsonString.value
  /\ "wordAssignments" \notin DOMAIN parsed

\* JSON.parse throws, the core object is not complete, and the manual
\* extraction finds the Hook only.
C25_WitnessManual ==
  /\ pc = "done"
  /\ "jsonString" \in DOMAIN responseText
  /\ responseText.jsonString.parse = "throws"
  /\ "core" \in DOMAIN responseText.jsonString
  /\ ~CoreStageSucceeds
  /\ DOMAIN responseText.labelled = {"Hook"}
  /\ parsed.marketingSegments.Bridge = NotPresent
  /\ parsed.marketingSegments.Hook # NotPresent

\* The parsed assignments are an array that validateWordAssignments rejects.
AssignmentsRejected(response) ==
  /\ "jsonString" \in DOMAIN response
  /\ response.jsonString.parse = "object"
  /\ Complete(response.jsonString.value)
  /\ "wordAssignments" \in DOMAIN response.jsonString.value
  /\ "array" \in DOMAIN response.jsonString.value.wordAssignments
  /\ ~validateWordAssignments(
        response.jsonString.value.transcription,
        response.jsonString.value.marketingSegments,
        response.jsonString.value.wordAssignments.array).valid

\* What parseMarketingResponse returns when the assignments are rejected:
\* the transcription, the segments and every assignment.
C26_ParserKeepsRejectedAssignments ==
  (pc = "done" /\ AssignmentsRejected(responseText)) =>
    /\ parsed.transcription = responseText.jsonString.value.transcription
    /\ parsed.marketingSegments
         = responseText.jsonString.value.marketingSegments
    /\ "wordAssignments" \in DOMAIN parsed
    /\ SameElements(parsed.wordAssignments,
                    responseText.jsonString.value.wordAssignments.array)

\* C26: when marketing analysis is requested and the word assignments of a
\* video's response fail validation, the result of the video has
\* success = true and carries the transcription, the segments and every
\* word assignment of the response.
C26_ValidationNeverBlocks ==
  pc = "done" =>
    \A k \in 1..Len(jobResult.results) :
      LET result == jobResult.results[k]
          video  == outcomes[result.videoId]
      IN  (/\ extractMarketingSegments(requestOptions)
           /\ Transcribed(result.videoId)
           /\ AssignmentsRejected(video.text))
          => /\ result.success
             /\ "error" \notin DOMAIN result
             /\ result.transcription = video.text.jsonString.value.transcription
             /\ result.marketingSegments
                  = video.text.jsonString.value.marketingSegments
             /\ "wordAssignments" \in DOMAIN result
             /\ SameElements(result.wordAssignments,
                             video.text.jsonString.value.wordAssignments.array)

\* A video whose assignments are rejected, in a job with a failed video
C26_Witness ==
  /\ pc = "done"
  /\ extractMarketingSegments(requestOptions)
  /\ Len(videos) >= 2
  /\ ~Transcribed(videos[1].id)
  /\ Transcribed(videos[2].id)
  /\ AssignmentsRejected(outcomes[videos[2].id].text)
  /\ jobResult.results[1].videoId = videos[2].id
  /\ jobResult.results[1].success
  /\ Len(jobResult.results[1].wordAssignments) = 2

(***************************************************************************)
(* The sequential loop of GeminiClient.transcribeVideos,                   *)
(* one await at a time                                                     *)
(*                                                                         *)
(* now is the clock in milliseconds. A call of transcribeVideo takes       *)
(* between 1 and MaxRequestTime milliseconds and this.delay(ms) takes ms;  *)
(* the statements between two awaits take no time. requestTimes records   *)
(* the calls of the sequential loop.                                       *)
(***************************************************************************)

RATE_LIMIT_DELAY == 500

FAST_MODE_DELAY == 200

\* const delay = options.extractMarketingSegments ? ... : ...
delayOf(opts) ==
  IF extractMarketingSegments(opts) THEN RATE_LIMIT_DELAY ELSE FAST_MODE_DELAY

\* The body of the loop after transcribeVideo has settled: the try block
\* pushes to successful and awaits the delay unless the video is the last,
\* the catch block pushes to failed.
afterRequest(locals0, video, ok, text, count) ==
  IF ok
  THEN [client |->
          [locals0 EXCEPT !.successful =
             Append(@, [video |-> video, response |-> [text |-> text]])],
        pc |-> IF locals0.i < count - 1 THEN "delay" ELSE "leave"]
  ELSE [client |->
          [locals0 EXCEPT !.failed =
             Append(@, [video |-> video, error |-> TranscriptionFailed])],
        pc |-> "leave"]

\* i++ and the test of the loop
nextIteration(locals0, count) ==
  [client |-> [locals0 EXCEPT !.i = @ + 1],
   pc |-> IF locals0.i + 1 < count THEN "request" ELSE "done"]

MaxRequestTime == 2

RequestDurations == 1..MaxRequestTime

\* The videos handed to the client have been downloaded.
DownloadedOutcomes == {outcome \in VideoOutcomes : outcome.download}

NotCalled == <<>>

InitClient ==
  /\ pc = "ready"
  /\ videos \in VideoLists
  /\ requestOptions \in RequestOptionChoices
  /\ outcomes \in [VideoIds(videos) -> DownloadedOutcomes]
  /\ now = 0
  /\ client = NotCalled
  /\ requestTimes = <<>>
  /\ jobResult = Unused
  /\ ParserUnused /\ PipelineUnused /\ ExportUnused
  /\ transcriptionResults = Unused /\ syntheticScripts = Unused
  /\ options = Unused /\ dataset = Unused
  /\ content = Unused /\ topic = Unused
  /\ transcription = Unused /\ marketingSegments = Unused
  /\ wordAssignments = Unused /\ validation = Unused

clientFrame ==
  <<videos, requestOptions, outcomes, jobResult, parserVars, pipelineVars,
    exportVars, datasetVars, topicVars, validatorVars>>

\* The call up to the first await: the parallel branch returns what
\* Promise.all gives, the sequential branch enters the loop.
StartTranscribeVideos ==
  /\ pc = "ready"
  /\ IF fastMode(requestOptions) /\ Len(videos) <= ParallelBatchSize
     THEN /\ client' = [i |-> 0] @@ transcribeVideosParallel(videos, outcomes)
          /\ pc' = "done"
     ELSE /\ client' = [i |-> 0, successful |-> <<>>, failed |-> <<>>]
          /\ pc' = IF 0 < Len(videos) THEN "request" ELSE "done"
  /\ UNCHANGED <<now, requestTimes, clientFrame>>

\* await this.transcribeVideo(video, options) settles.
TranscribeVideoSettles ==
  /\ pc = "request"
  /\ \E elapsed \in RequestDurations :
       LET video == videos[client.i + 1]
           ok    == outcomes[video.id].transcription
           after == afterRequest(client, video, ok, outcomes[video.id].text,
                                 Len(videos))
           next  == IF after.pc = "leave"
                    THEN nextIteration(after.client, Len(videos))
                    ELSE after
       IN  /\ now' = now + elapsed
           /\ requestTimes' =
                Append(requestTimes,
                       [video |-> video.id, started |-> now,
                        ended |-> now + elapsed, ok |-> ok])
           /\ client' = next.client
           /\ pc' = next.pc
  /\ UNCHANGED clientFrame

\* await this.delay(delay) settles.
DelayElapses ==
  /\ pc = "delay"
  /\ now' = now + delayOf(requestOptions)
  /\ client' = nextIteration(client, Len(videos)).client
  /\ pc' = nextIteration(client, Len(videos)).pc
  /\ UNCHANGED <<requestTimes, clientFrame>>

NextClient == StartTranscribeVideos \/ TranscribeVideoSettles \/ DelayElapses

SpecClient == InitClient /\ [][NextClient]_vars

\* The loop returns what transcribeVideos is taken to return in SpecBatch.
ClientReturnsTranscribeVideos ==
  pc = "done" =>
    [successful |-> client.successful, failed |-> client.failed]
      = transcribeVideos(videos, requestOptions, outcomes)

\* The time between the end of the request at position k of requestTimes
\* and the start of the next one
Gap(k) == requestTimes[k + 1].started - requestTimes[k].ended

\* C27: in the sequential loop the delay elapses between the end of each
\* request and the start of the next, whether the request succeeded or
\* failed, and the call returns at the end of the last request.
C27_DelayBetweenRequests ==
  /\ \A k \in 1..(Len(requestTimes) - 1) : Gap(k) >= delayOf(requestOptions)
  /\ (pc = "done" /\ requestTimes # <<>>) =>
       now = requestTimes[Len(requestTimes)].ended

\* What the loop does: the delay elapses after a request that succeeded,
\* the next request starts at once after a request that failed, and the
\* call returns at the end of the last request.
C27_DelayAfterSuccessOnly ==
  /\ \A k \in 1..(Len(requestTimes) - 1) :
       Gap(k) = IF requestTimes[k].ok THEN delayOf(requestOptions) ELSE 0
  /\ (pc = "done" /\ requestTimes # <<>>) =>
       now = requestTimes[Len(requestTimes)].ended

\* The request of the second video starts when the first one has failed.
C27_NoDelayAfterFailure ==
  /\ Len(requestTimes) >= 2
  /\ ~requestTimes[1].ok
  /\ requestTimes[2].started = requestTimes[1].ended

\* Three requests that succeeded, with marketing analysis
C27_DelaysAfterSuccess ==
  /\ pc = "done"
  /\ Len(requestTimes) = 3
  /\ \A k \in 1..3 : requestTimes[k].ok
  /\ Gap(1) = RATE_LIMIT_DELAY /\ Gap(2) = RATE_LIMIT_DELAY

(***************************************************************************)
(* Claims about the steps recorded when the pipeline responds              *)
(***************************************************************************)

LastStep == steps[Len(steps)]

RunningSteps == {k \in 1..Len(steps) : steps[k].status = "running"}

\* C29: when the handler responds, the last step is pipeline_complete for a
\* successful run and pipeline_failed for a failed one, and no step has the
\* status 'running'.
C29_NoStepLeftRunning ==
  pc = "responded" =>
    /\ LastStep.step =
         IF pipelineResponse.success THEN "pipeline_complete"
         ELSE "pipeline_failed"
    /\ RunningSteps = {}

\* The part of C29 that holds: the last step is the terminal step of the
\* outcome, and a successful run leaves no step running.
C29_TerminalStepLast ==
  pc = "responded" =>
    /\ LastStep.step =
         IF pipelineResponse.success THEN "pipeline_complete"
         ELSE "pipeline_failed"
    /\ LastStep.status =
         IF pipelineResponse.success THEN "completed" ELSE "failed"
    /\ pipelineResponse.success => RunningSteps = {}
    /\ Cardinality(RunningSteps) <= 1

\* The fetch of /api/process-creator rejects: video_extraction stays
\* 'running' in front of pipeline_failed.
C29_ExtractionLeftRunning ==
  /\ pc = "responded"
  /\ Len(steps) = 3
  /\ steps[2].step = "video_extraction" /\ steps[2].status = "running"
  /\ steps[3].step = "pipeline_failed"
  /\ ~pipelineResponse.success

(***************************************************************************)
(* Specification SpecJobExport: the results of processTranscriptionRequest *)
(* are posted to /api/export-training-data                                 *)
(* (app/api/export-training-data/route.ts), which calls                    *)
(* generateTrainingDataset with the options of the request                 *)
(***************************************************************************)

\* The options of the export request: none, a view-count threshold, and
\* no original examples.
JobExportOptions ==
  { <<>>,
    [includeMetadata |-> FALSE, minViewCount |-> 0],
    [minViewCount |-> 500],
    [includeOriginalTranscriptions |-> FALSE] }

InitJobExport ==
  /\ pc = "ready"
  /\ videos \in VideoLists
  /\ requestOptions \in RequestOptionChoices
  /\ outcomes \in [VideoIds(videos) -> VideoOutcomes]
  /\ jobResult = NoJobResult
  /\ options \in JobExportOptions
  /\ transcriptionResults = <<>>
  /\ syntheticScripts = <<>>
  /\ dataset = NoDataset
  /\ ParserUnused /\ PipelineUnused /\ ClientUnused
  /\ ExportUnused
  /\ content = Unused /\ topic = Unused
  /\ transcription = Unused /\ marketingSegments = Unused
  /\ wordAssignments = Unused /\ validation = Unused

\* The 'generate' action of the route with the results of the job
ExportTrainingData ==
  /\ pc = "done"
  /\ transcriptionResults' = jobResult.results
  /\ dataset' = generateTrainingDataset(jobResult.results, syntheticScripts,
                                        options)
  /\ pc' = "exported"
  /\ UNCHANGED <<syntheticScripts, options, batchVars, parserVars, pipelineVars,
                 exportVars, topicVars, validatorVars, clientVars>>

NextJobExport == ProcessTranscriptionRequest \/ ExportTrainingData

SpecJobExport == InitJobExport /\ [][NextJobExport]_vars

\* The videos whose response was received and could not be parsed
UnparsedVideos ==
  { id \in VideoIds(videos) :
      /\ outcomes[id].download /\ outcomes[id].transcription
      /\ outcomes[id].text = UnparsableResponse }

\* "Not Present Not Present Not Present Not Present"
SentinelScript ==
  NotPresent \o Space \o NotPresent \o Space \o NotPresent \o Space \o NotPresent

SentinelExamples ==
  {k \in 1..Len(dataset.examples) : dataset.examples[k].output = SentinelScript}

\* Every unparsed video has a successful result with sentinel segments, and
\* the dataset holds one example with the sentinel script for each of them.
UnparsedKept ==
  /\ \A id \in UnparsedVideos :
       \E k \in 1..Len(jobResult.results) :
         /\ jobResult.results[k].videoId = id
         /\ jobResult.results[k].success
         /\ "marketingSegments" \in DOMAIN jobResult.results[k]
         /\ jobResult.results[k].marketingSegments
              \in {AllSegments(NotPresent), AllSegments(ParsingError)}
  /\ Cardinality(SentinelExamples) = Cardinality(UnparsedVideos)
  /\ \A k \in SentinelExamples :
       "metadata" \in DOMAIN dataset.examples[k] =>
         /\ dataset.examples[k].metadata.source = "original"
         /\ dataset.examples[k].metadata.videoId \in UnparsedVideos

\* C30 as stated: with marketing analysis, a response that could not be
\* parsed gives a successful result with sentinel segments, and the dataset
\* has an original example for it whose output is the sentinels joined by
\* spaces, whatever the options of the export.
C30_UnparsedNeverDropped ==
  (pc = "exported" /\ extractMarketingSegments(requestOptions)) => UnparsedKept

\* C30, amended: the same when the export keeps the original examples and
\* sets no view-count threshold above 0 (the defaults, and what the
\* pipeline sends).
C30_UnparsedKeptByDefault ==
  (/\ pc = "exported"
   /\ extractMarketingSegments(requestOptions)
   /\ optionOr(options, "includeOriginalTranscriptions", TRUE)
   /\ optionOr(options, "minViewCount", 0) <= 0) => UnparsedKept

\* An unparsed video next to a parsed one, exported with the defaults
C30_Witness ==
  /\ pc = "exported"
  /\ extractMarketingSegments(requestOptions)
  /\ options = <<>>
  /\ Cardinality(UnparsedVideos) = 1
  /\ Len(dataset.examples) = 2
  /\ Cardinality(SentinelExamples) = 1

\* The threshold of 500 views leaves the dataset without the unparsed video.
C30_DroppedByThreshold ==
  /\ pc = "exported"
  /\ extractMarketingSegments(requestOptions)
  /\ options = [minViewCount |-> 500]
  /\ UnparsedVideos # {}
  /\ dataset.examples = <<>>

====
